---- MODULE Spec2Model ----
(***************************************************************************)
(* Navigate413 backend: the document-analysis pipeline                     *)
(* (agents/base_agents.py, agents/graph.py) and the operations around it   *)
(* (routers/upload.py, routers/analyze.py).                                *)
(*                                                                         *)
(* Text.  A Python str is modelled as a sequence of tokens.  A token is a  *)
(* maximal piece of text the code's string operations never look inside:   *)
(* a newline, a blank, a bullet character, a marker such as "DOMAIN:", or  *)
(* a word / phrase.  split, strip, lstrip, lower, startswith, endswith,    *)
(* len and the substring test 'in' are defined on token sequences below.   *)
(* None is the empty set and a present Optional value v is {v}.            *)
(***************************************************************************)
EXTENDS Integers, Sequences, FiniteSets, TLC

NL == "\n"

Whitespace == {" ", NL}

\* The characters of lstrip('\u2022\u25cf-*'), the two bullets written by code point.
BulletChars == {"U+2022", "U+25CF", "-", "*"}

None == {}

Some(v) == {v}

Get(opt) == CHOOSE v \in opt : TRUE

\* Python truthiness of an Optional[str]: neither None nor "".
Truthy(opt) == opt # None /\ Get(opt) # <<>>

\* Every text of at most n tokens over an alphabet.
Texts(alphabet, n) == UNION {[1..k -> alphabet] : k \in 0..n}

RECURSIVE LStrip(_, _)
LStrip(s, chars) ==
    IF s # <<>> /\ Head(s) \in chars THEN LStrip(Tail(s), chars) ELSE s

RECURSIVE RStrip(_, _)
RStrip(s, chars) ==
    IF s # <<>> /\ s[Len(s)] \in chars
    THEN RStrip(SubSeq(s, 1, Len(s) - 1), chars)
    ELSE s

\* str.strip()
Strip(s) == RStrip(LStrip(s, Whitespace), Whitespace)

\* str.split(sep): the pieces between the occurrences of sep (never empty).
RECURSIVE Split(_, _)
Split(s, sep) ==
    IF \E i \in 1..Len(s) : s[i] = sep
    THEN LET i == CHOOSE k \in 1..Len(s) :
                      s[k] = sep /\ \A j \in 1..(k - 1) : s[j] # sep
         IN  <<SubSeq(s, 1, i - 1)>> \o Split(SubSeq(s, i + 1, Len(s)), sep)
    ELSE <<s>>

\* str.lower() of one token.
LowerTok(t) ==
    CASE t = "DOMAIN:" -> "domain:"
      [] t = "Finance" -> "finance"
      [] t = "Error generating response:" -> "error generating response:"
      [] t = "RISK_LEVEL:" -> "risk_level:"
      [] t = "RED_FLAGS:" -> "red_flags:"
      [] t = "HIGH" -> "high"
      [] t = "NONE" -> "none"
      [] OTHER -> t

UpperTok(t) ==
    CASE t = "low" -> "LOW"
      [] t = "none" -> "NONE"
      [] t = "late fee" -> "LATE FEE"
      [] OTHER -> t

Lower(s) == [i \in 1..Len(s) |-> LowerTok(s[i])]

Upper(s) == [i \in 1..Len(s) |-> UpperTok(s[i])]

StartsWith(s, tok) == s # <<>> /\ Head(s) = tok

EndsWith(s, tok) == s # <<>> /\ s[Len(s)] = tok

\* 'marker in s' for a marker that is a token of its own.
HasToken(s, tok) == \E i \in 1..Len(s) : s[i] = tok

\* The words of the router's keyword lists that occur inside a longer token.
SubstringTable == {<<"current", "rent">>}

\* 'word in s' for a lower-case word: it is a token of s or lies inside one.
ContainsWord(s, word) ==
    \E i \in 1..Len(s) : s[i] = word \/ <<s[i], word>> \in SubstringTable

\* len() of one token, in characters.
TokLen(t) ==
    CASE t \in Whitespace \cup BulletChars -> 1
      [] t = "Fees:" -> 5
      [] t = "Pay $200" -> 8
      [] t = "Pay $2,000 deposit by March 1" -> 29
      [] t = "Error generating response:" -> 26
      [] t = "timeout" -> 7
      [] t = "current" -> 7
      [] t = "quota" -> 5
      [] OTHER -> 4

RECURSIVE TextLen(_)
TextLen(s) == IF s = <<>> THEN 0 ELSE TokLen(Head(s)) + TextLen(Tail(s))

\* Tokens whose last character is a colon.
ColonTok == {"Fees:", "DOMAIN:", "Error generating response:", "RISK_LEVEL:", "RED_FLAGS:"}

EndsWithColon(s) == s # <<>> /\ s[Len(s)] \in ColonTok

(***************************************************************************)
(* The text-generation service and its adapter.                            *)
(***************************************************************************)
\* Messages of the exceptions the service raises (str(e)).
ErrTexts == {<<"timeout">>, <<"current", " ", "quota">>}

\* What one call of the service does: it answers a text or raises.
GeminiOutcomes(texts) ==
    {[kind |-> "text", text |-> t] : t \in texts}
        \cup {[kind |-> "exception", text |-> e] : e \in ErrTexts}

\* call_gemini_with_reasoning: the stripped answer, or the error string.
call_gemini_with_reasoning(outcome) ==
    IF outcome.kind = "text"
    THEN Strip(outcome.text)
    ELSE <<"Error generating response:", " ">> \o outcome.text

(***************************************************************************)
(* router_agent                                                            *)
(***************************************************************************)
FINANCE == <<"finance">>

HOUSING == <<"housing">>

VISA == <<"visa">>

UNKNOWN == <<"unknown">>

Domains == {FINANCE, HOUSING, VISA, UNKNOWN}

FinanceWords == {"financial aid", "tuition", "scholarship", "loan", "bursar", "payment"}

HousingWords == {"lease", "rent", "housing", "apartment", "residential"}

VisaWords == {"visa", "f-1", "j-1", "i-20", "immigration"}

\* The value of the first line that starts with DOMAIN:, else "unknown".
DomainLine(analysis) ==
    LET lines == Split(analysis, NL)
        hits == {i \in 1..Len(lines) : StartsWith(Strip(lines[i]), "DOMAIN:")}
    IN  IF hits = {}
        THEN UNKNOWN
        ELSE LET i == CHOOSE k \in hits : \A j \in hits : k <= j
             IN  Lower(Strip(Split(lines[i], "DOMAIN:")[2]))

\* The keyword fallback over the lower-cased reply.
KeywordDomain(analysis) ==
    LET analysis_lower == Lower(analysis)
    IN  IF \E w \in FinanceWords : ContainsWord(analysis_lower, w) THEN FINANCE
        ELSE IF \E w \in HousingWords : ContainsWord(analysis_lower, w) THEN HOUSING
        ELSE IF \E w \in VisaWords : ContainsWord(analysis_lower, w) THEN VISA
        ELSE UNKNOWN

ClassifyDomain(analysis) ==
    LET domain == DomainLine(analysis)
    IN  IF domain = UNKNOWN THEN KeywordDomain(analysis) ELSE domain

(***************************************************************************)
(* AgentState and the stages' effects on it.                               *)
(***************************************************************************)
Min(a, b) == IF a <= b THEN a ELSE b

\* seq[:n]
Take(seq, n) == SubSeq(seq, 1, Min(n, Len(seq)))

SessionId == "s1"

\* The text process_file_background extracted: a non-empty document.
DocText == <<"document text">>

\* run_analysis_workflow's initial_state.
InitialState(session_id, raw_text) ==
    [session_id |-> session_id,
     raw_text |-> raw_text,
     domain |-> <<>>,
     language |-> "en",
     clauses |-> <<>>,
     obligations |-> <<>>,
     financial_details |-> None,
     housing_details |-> None,
     visa_details |-> None,
     risk_assessment |-> None,
     red_flags |-> <<>>,
     resources |-> <<>>,
     rag_context |-> <<>>,
     translation |-> None,
     scenario |-> None,
     simulation_options |-> <<>>,
     error |-> None]

\* The except branch giving back a state whose obligations list is a new, empty one.
StageError_DropsObligations(st, e) == [st EXCEPT !.error = Some(e), !.obligations = <<>>]

\* The except branch shared by finance, housing, visa, rag and risk.
StageError(st, e) == [st EXCEPT !.error = Some(e)]

\* router_agent, try branch.
router_agent(st, analysis) == [st EXCEPT !.domain = ClassifyDomain(analysis)]

\* router_agent, except branch.
router_agent_error(st, e) == [st EXCEPT !.error = Some(e), !.domain = UNKNOWN]

MinObligationLen == 10

FinanceObligationCap == 8

VisaObligationCap == 6

\* One line of a reply as the obligation loops clean it.
CleanLine(line) == Strip(LStrip(Strip(line), BulletChars))

KeepLine(line) ==
    line # <<>> /\ TextLen(line) > MinObligationLen /\ ~EndsWithColon(line)

\* The obligations list built from a reply, before truncation.
ExtractObligations(analysis) ==
    LET lines == Split(analysis, NL)
        cleaned == [i \in 1..Len(lines) |-> CleanLine(lines[i])]
    IN  SelectSeq(cleaned, KeepLine)

\* finance_agent storing its reply under the housing field: a slip of the field name.
finance_agent_WritesHousingField(st, analysis) ==
    [st EXCEPT !.housing_details = Some(analysis),
               !.obligations = @ \o Take(ExtractObligations(analysis), FinanceObligationCap)]

finance_agent(st, analysis) ==
    [st EXCEPT !.financial_details = Some(analysis),
               !.obligations = @ \o Take(ExtractObligations(analysis), FinanceObligationCap)]

housing_agent(st, analysis) ==
    [st EXCEPT !.housing_details = Some(analysis),
               !.clauses = Append(@, analysis)]

visa_agent(st, analysis) ==
    [st EXCEPT !.visa_details = Some(analysis),
               !.obligations = @ \o Take(ExtractObligations(analysis), VisaObligationCap)]

(***************************************************************************)
(* rag_agent and the retrieval tool.                                       *)
(***************************************************************************)
RagTopK == 3

RagTopN == 10

\* What one vector search does: it yields ranked items or fails.
RetrievalItems ==
    {[clause_text |-> "clause A", score |-> 1],
     [clause_text |-> "clause B", score |-> 2],
     [clause_text |-> "", score |-> 1]}

\* What a call does: it returns a value, or an exception leaves it.
Return(value) == [kind |-> "return", value |-> value]

Raise == [kind |-> "raise", value |-> <<>>]

\* The try block of vector_search: embed_text, then the aggregation, whose
\* $vectorSearch stage hands on the first top_k of the ranked candidates; a
\* failure of the embedding, the index or the database raises.
vector_search_try(outcome, top_k) ==
    IF outcome.kind = "results" THEN Return(Take(outcome.items, top_k)) ELSE Raise

\* vector_search handing on every candidate, the limit left out of the stage.
vector_search_IgnoresLimit(outcome, top_k) ==
    IF outcome.kind = "results" THEN Return(outcome.items) ELSE Return(<<>>)

\* vector_search: except Exception: return [].
vector_search(outcome, top_k) ==
    IF vector_search_try(outcome, top_k).kind = "raise"
    THEN Return(<<>>)
    ELSE vector_search_try(outcome, top_k)

\* GlobalRetrievalTool as a call: vector_search inside try, except Exception:
\* return [].
GlobalRetrievalToolCall(outcome, top_k) ==
    IF vector_search(outcome, top_k).kind = "raise"
    THEN Return(<<>>)
    ELSE vector_search(outcome, top_k)

\* GlobalRetrievalTool: the search's items, at most top_k; [] on any failure.
GlobalRetrievalTool(outcome, top_k) == GlobalRetrievalToolCall(outcome, top_k).value

\* rag_agent's search_queries, each named by its text.
SearchQueries(st) ==
    (IF st.raw_text # <<>> THEN <<"document snippet">> ELSE <<>>)
    \o (IF st.domain = FINANCE \/ Truthy(st.financial_details)
        THEN <<"tuition payment deadline penalty financial obligation fee">> ELSE <<>>)
    \o (IF st.domain = HOUSING \/ Truthy(st.housing_details)
        THEN <<"lease termination move-out penalty deposit liability">> ELSE <<>>)
    \o (IF st.domain = VISA \/ Truthy(st.visa_details)
        THEN <<"visa compliance I-20 enrollment status immigration">> ELSE <<>>)

\* The inner loop: append each new, non-empty clause text of one query's results.
RECURSIVE AddResults(_, _, _)
AddResults(retrieved, results, query) ==
    IF results = <<>>
    THEN retrieved
    ELSE LET r == Head(results)
             seen == {retrieved[i].text : i \in 1..Len(retrieved)}
             next == IF r.clause_text # "" /\ r.clause_text \notin seen
                     THEN Append(retrieved,
                                 [text |-> r.clause_text, score |-> r.score, query |-> query])
                     ELSE retrieved
         IN  AddResults(next, Tail(results), query)

\* The outer loop over the queries and their results.
RECURSIVE Retrieve(_, _, _)
Retrieve(retrieved, queries, results) ==
    IF queries = <<>>
    THEN retrieved
    ELSE Retrieve(AddResults(retrieved, Head(results), Head(queries)),
                  Tail(queries), Tail(results))

\* sorted(..., key=score, reverse=True): stable, equal scores keep their order.
RECURSIVE InsertByScore(_, _)
InsertByScore(sorted, x) ==
    IF sorted = <<>> THEN <<x>>
    ELSE IF Head(sorted).score >= x.score
         THEN <<Head(sorted)>> \o InsertByScore(Tail(sorted), x)
         ELSE <<x>> \o sorted

\* rag_agent without its sorted(...) call: the clauses stay in retrieval order.
SortByScoreDesc_RetrievalOrder(seq) == seq

RECURSIVE SortByScoreDesc(_)
SortByScoreDesc(seq) ==
    IF seq = <<>> THEN <<>>
    ELSE InsertByScore(SortByScoreDesc(SubSeq(seq, 1, Len(seq) - 1)), seq[Len(seq)])

\* rag_agent storing the snippet it searches with as the document text.
rag_agent_KeepsSnippetAsText(st, results) ==
    [st EXCEPT !.raw_text = <<"document snippet">>,
               !.rag_context =
        Take(SortByScoreDesc(Retrieve(<<>>, SearchQueries(st), results)), RagTopN)]

\* rag_agent, try branch; results[i] is what query i's retrieval returned.
rag_agent(st, results) ==
    [st EXCEPT !.rag_context =
        Take(SortByScoreDesc(Retrieve(<<>>, SearchQueries(st), results)), RagTopN)]

(***************************************************************************)
(* risk_agent                                                              *)
(***************************************************************************)
RedFlagCap == 5

\* str.replace(tok, ""): every occurrence of the token is removed.
RECURSIVE Remove(_, _)
Remove(s, tok) ==
    IF s = <<>> THEN <<>>
    ELSE IF Head(s) = tok THEN Remove(Tail(s), tok)
    ELSE <<Head(s)>> \o Remove(Tail(s), tok)

\* The flags risk_agent appends: the first RED_FLAGS: line, split at commas.
RedFlags(analysis) ==
    IF ~HasToken(analysis, "RED_FLAGS:")
    THEN <<>>
    ELSE LET lines == Split(analysis, NL)
             i == CHOOSE k \in 1..Len(lines) :
                      /\ HasToken(lines[k], "RED_FLAGS:")
                      /\ \A j \in 1..(k - 1) : ~HasToken(lines[j], "RED_FLAGS:")
             flags_text == Strip(Remove(lines[i], "RED_FLAGS:"))
             parts == Split(flags_text, ",")
             flags == [k \in 1..Len(parts) |-> Strip(parts[k])]
         IN  IF flags_text # <<>> /\ Upper(flags_text) # <<"NONE">>
             THEN Take(flags, RedFlagCap)
             ELSE <<>>

\* The local risk_level of risk_agent: read off the first line that holds
\* RISK_LEVEL:, MEDIUM when there is none or it names neither HIGH nor LOW.
ParsedRiskLevel(analysis) ==
    IF ~HasToken(analysis, "RISK_LEVEL:")
    THEN "MEDIUM"
    ELSE LET lines == Split(analysis, NL)
             i == CHOOSE k \in 1..Len(lines) :
                      /\ HasToken(lines[k], "RISK_LEVEL:")
                      /\ \A j \in 1..(k - 1) : ~HasToken(lines[j], "RISK_LEVEL:")
             level_line == Upper(lines[i])
         IN  IF HasToken(level_line, "HIGH") THEN "HIGH"
             ELSE IF HasToken(level_line, "LOW") THEN "LOW"
             ELSE "MEDIUM"

\* risk_agent, try branch: the parsed level is dropped, risk_assessment is "".
risk_agent(st, analysis) ==
    [st EXCEPT !.risk_assessment = Some(<<>>),
               !.red_flags = @ \o RedFlags(analysis)]

(***************************************************************************)
(* simulation_agent                                                        *)
(***************************************************************************)
\* Tokens of a JSON reply.  A descriptor is one token, named by its keys.
JsonOpen == "{\"simulations\": ["

JsonClose == "]}"

FullDescriptor == "{scenario_type, label, description, parameters, formula}"

NoFormulaDescriptor == "{scenario_type, label, description, parameters}"

NumberEntry == "7"

EntryTok == {FullDescriptor, NoFormulaDescriptor, NumberEntry}

\* The keys of an entry that is a JSON object.
Keys(entry) ==
    CASE entry = FullDescriptor ->
             {"scenario_type", "label", "description", "parameters", "formula"}
      [] entry = NoFormulaDescriptor ->
             {"scenario_type", "label", "description", "parameters"}
      [] OTHER -> {}

IsObject(entry) == entry \in {FullDescriptor, NoFormulaDescriptor}

RequiredKeys == {"scenario_type", "label", "parameters", "formula"}

\* The declared maximum of each domain's prompt template.
TemplateMax(domain) ==
    CASE domain = FINANCE -> 6
      [] domain = HOUSING -> 3
      [] domain = VISA -> 2
      [] OTHER -> 0

\* The markdown code fence (three backquotes), written with apostrophes.
Fence == "'''"

\* The response with its markdown fence removed, as handed to json.loads.
CleanResponse(response) ==
    LET stripped == Strip(response)
        inner == IF StartsWith(stripped, Fence)
                 THEN LET piece == Split(stripped, Fence)[2]
                      IN  IF StartsWith(piece, "json") THEN Tail(piece) ELSE piece
                 ELSE stripped
    IN  Strip(inner)

\* Whether s is entries separated by commas (possibly none).
RECURSIVE IsEntryList(_)
IsEntryList(s) ==
    \/ s = <<>>
    \/ Len(s) = 1 /\ s[1] \in EntryTok
    \/ /\ Len(s) >= 3
       /\ s[1] \in EntryTok
       /\ s[2] = ","
       /\ Len(s) > 2
       /\ SubSeq(s, 3, Len(s)) # <<>>
       /\ IsEntryList(SubSeq(s, 3, Len(s)))

\* json.loads: the kind of the value, and the simulations list of an object.
JsonLoads(s) ==
    IF s = <<"[]">> THEN [kind |-> "array", simulations |-> <<>>]
    ELSE IF s = <<"{}">> THEN [kind |-> "object", simulations |-> <<>>]
    ELSE IF s = <<"{\"simulations\": null}">> THEN [kind |-> "object_null", simulations |-> <<>>]
    ELSE IF /\ Len(s) >= 2
            /\ s[1] = JsonOpen
            /\ s[Len(s)] = JsonClose
            /\ IsEntryList(SubSeq(s, 2, Len(s) - 1))
         THEN [kind |-> "object",
               simulations |-> SelectSeq(SubSeq(s, 2, Len(s) - 1), LAMBDA t : t # ",")]
         ELSE [kind |-> "JSONDecodeError", simulations |-> <<>>]

IsValidSimulation(sim) == RequiredKeys \subseteq Keys(sim)

\* What the parsing block leaves in simulation_options.  A top-level array has no
\* .get, null is not iterable and "k in sim" raises for a number: each of these
\* ends in the outer except, which stores [].
ParseSimulations(response) ==
    LET data == JsonLoads(CleanResponse(response))
    IN  IF data.kind # "object" THEN <<>>
        ELSE IF \E i \in 1..Len(data.simulations) : ~IsObject(data.simulations[i])
             THEN <<>>
             ELSE SelectSeq(data.simulations, IsValidSimulation)

\* The number of the reply's entries that are objects with every required key.
ValidInReply(response) ==
    LET data == JsonLoads(CleanResponse(response))
    IN  Cardinality({i \in 1..Len(data.simulations) :
                        IsValidSimulation(data.simulations[i])})

\* simulation_agent without its else branch: it asks the model for every domain.
SimulationCallsModel_AnyDomain(st) == st.domain \in Domains \cup {<<>>}

\* Whether simulation_agent builds a prompt and calls the model.
SimulationCallsModel(st) == st.domain \in {HOUSING, FINANCE, VISA}

\* simulation_agent once the model has answered.
simulation_agent(st, response) ==
    [st EXCEPT !.simulation_options = ParseSimulations(response)]

\* simulation_agent's short circuit, and its outer except branch.
simulation_agent_empty(st) == [st EXCEPT !.simulation_options = <<>>]

(***************************************************************************)
(* Bounds and the replies the external services are taken to give.         *)
(***************************************************************************)
MaxRouterLen == 4

MaxDetailLines == 2

MaxRiskLines == 2

MaxResults == 2

MaxSims == 3

MaxFaults == 1

RouterTok == {NL, " ", "DOMAIN:", "Finance", "unknown", "visa"}

\* The lines of a specialized stage's reply: a bulleted obligation and a heading.
DetailLines ==
    {<<"U+2022", " ", "Pay $2,000 deposit by March 1">>,
     <<"Fees:">>}

\* The lines of the risk stage's reply.
RiskLines ==
    {<<"RISK_LEVEL:", " ", "HIGH">>,
     <<"RED_FLAGS:", " ", "late fee", ",", " ", "no termination clause">>,
     <<"RED_FLAGS:", " ", "NONE">>}

\* The lines joined by newlines.
RECURSIVE JoinLines(_)
JoinLines(lines) ==
    IF lines = <<>> THEN <<>>
    ELSE IF Len(lines) = 1 THEN lines[1]
    ELSE lines[1] \o <<NL>> \o JoinLines(Tail(lines))

\* The replies of at most n lines, each line one of the given ones.
Replies(lines, n) == {JoinLines(l) : l \in Texts(lines, n)}

RetrievalOutcomes ==
    {[kind |-> "results", items |-> r] : r \in Texts(RetrievalItems, MaxResults)}
        \cup {[kind |-> "exception", items |-> <<>>]}

\* The largest number of ranked candidates the index holds for a query, and the
\* largest top_k a caller asks for.
MaxCandidates == 4

MaxTopK == 3

\* What can fail under a search: the embedding, the index, the database.
RetrievalFailures == {"embedding failed", "index missing", "database unreachable"}

SearchOutcomes ==
    {[kind |-> "results", items |-> r] : r \in Texts(RetrievalItems, MaxCandidates)}
        \cup {[kind |-> f, items |-> <<>>] : f \in RetrievalFailures}

\* s[1], sep, s[2], sep, ...
RECURSIVE Join(_, _)
Join(s, sep) ==
    IF Len(s) <= 1 THEN s ELSE <<Head(s), sep>> \o Join(Tail(s), sep)

\* The JSON documents, and other bodies, of a simulation reply.
SimBodies ==
    {<<JsonOpen>> \o Join(e, ",") \o <<JsonClose>> : e \in Texts(EntryTok, MaxSims)}
        \cup {<<"[]">>, <<"{}">>, <<"{\"simulations\": null}">>, <<"I cannot help">>}

\* A body as it stands, fenced with and without a language tag, or after chatter.
SimTexts ==
    UNION {{b,
            <<Fence, "json", NL>> \o b \o <<NL, Fence>>,
            <<Fence, NL>> \o b \o <<NL, Fence>>,
            <<"Sure:", NL>> \o b} : b \in SimBodies}

SimOutcomes ==
    {[kind |-> "text", text |-> t] : t \in SimTexts}
        \cup {[kind |-> "exception", text |-> e] : e \in ErrTexts}

\* str(e) of an exception raised by a stage's upstream call inside the stage.
FaultMsg == <<"upstream call raised">>

(***************************************************************************)
(* State.                                                                  *)
(***************************************************************************)
VARIABLES
    documents_metadata, \* the collection: a set of records, keyed by _id
    background,         \* process_file_background: "none", "queued", "done"
    pc,                 \* where the analyze request and its pipeline run stand
    state,              \* the AgentState of the run
    response,           \* what analyze_document answered last
    trace,              \* the stages executed in this run, in order
    risk_run,           \* a run's tail from the risk stage on, taken alone
    simulate_call,      \* a request to run_simulation and its answer
    translate_call,     \* a request to translate_summary and its answer
    retrieval_call,     \* a call of GlobalRetrievalTool and its result
    runs,               \* concurrent pipeline runs: each one's stage and state
    heap,               \* the list objects the runs' states refer to, by address
    router_call,        \* a call of router_agent and the domain it wrote
    score_call,         \* a call of RiskModel's scoring and its result
    rag_call,           \* a run up to and including its rag stage
    sessions            \* uploads of several sessions, their tasks and answers

\* The operations that are specified on their own, apart from the analyze run.
direct == <<risk_run, simulate_call, translate_call, retrieval_call, runs, heap,
            router_call, score_call, rag_call, sessions>>

vars == <<documents_metadata, background, pc, state, response, trace,
          risk_run, simulate_call, translate_call, retrieval_call, runs, heap,
          router_call, score_call, rag_call, sessions>>

Idle == [phase |-> "idle"]

NoState == InitialState("", <<>>)

NoResponse == [kind |-> "none"]

StageNames == {"router", "finance", "housing", "visa", "rag", "risk", "simulation"}

Init ==
    /\ documents_metadata = {}
    /\ background = "none"
    /\ pc = "idle"
    /\ state = NoState
    /\ response = NoResponse
    /\ trace = <<>>
    /\ risk_run = Idle
    /\ simulate_call = Idle
    /\ translate_call = Idle
    /\ retrieval_call = Idle
    /\ runs = <<>>
    /\ heap = <<>>
    /\ router_call = Idle
    /\ score_call = Idle
    /\ rag_call = Idle
    /\ sessions = Idle

(***************************************************************************)
(* routers/upload.py                                                       *)
(***************************************************************************)
\* find_one({"_id": session_id}): None or the record.
FindOne(session_id) == {d \in documents_metadata : d._id = session_id}

\* update_one({"_id": session_id}, {"$set": ...}) with the record's new value.
UpdateOne(session_id, new) ==
    {IF d._id = session_id THEN new ELSE d : d \in documents_metadata}

\* upload_document: insert the record, unprocessed, and queue the background task.
upload_document ==
    /\ FindOne(SessionId) = None
    /\ documents_metadata' = documents_metadata \cup
           {[_id |-> SessionId,
             processed_flag |-> FALSE,
             raw_text |-> None,
             error |-> None,
             domain |-> None,
             analysis_results |-> None]}
    /\ background' = "queued"
    /\ UNCHANGED <<pc, state, response, trace>>
    /\ UNCHANGED direct

\* process_file_background raising the flag in an update of its own, the text
\* not yet stored.
process_file_background_FlagBeforeText ==
    /\ background = "queued"
    /\ LET doc == Get(FindOne(SessionId))
       IN  \E outcome \in {"extracted", "no text", "exception"} :
              documents_metadata' = UpdateOne(SessionId,
                  CASE outcome = "extracted" ->
                           [doc EXCEPT !.processed_flag = TRUE]
                    [] outcome = "no text" ->
                           [doc EXCEPT !.processed_flag = FALSE,
                                       !.error = Some(<<"text_extraction_failed">>)]
                    [] OTHER ->
                           [doc EXCEPT !.processed_flag = FALSE, !.error = Some(FaultMsg)])
    /\ background' = "done"
    /\ UNCHANGED <<pc, state, response, trace>>
    /\ UNCHANGED direct

\* process_file_background: the one update it makes, by what extraction and
\* embedding did.
process_file_background ==
    /\ background = "queued"
    /\ LET doc == Get(FindOne(SessionId))
       IN  \E outcome \in {"extracted", "no text", "exception"} :
              documents_metadata' = UpdateOne(SessionId,
                  CASE outcome = "extracted" ->
                           [doc EXCEPT !.processed_flag = TRUE, !.raw_text = Some(DocText)]
                    [] outcome = "no text" ->
                           [doc EXCEPT !.processed_flag = FALSE,
                                       !.error = Some(<<"text_extraction_failed">>)]
                    [] OTHER ->
                           [doc EXCEPT !.processed_flag = FALSE, !.error = Some(FaultMsg)])
    /\ background' = "done"
    /\ UNCHANGED <<pc, state, response, trace>>
    /\ UNCHANGED direct

(***************************************************************************)
(* agents/graph.py                                                         *)
(***************************************************************************)
\* route_to_domain ending the run when an earlier stage has recorded an error.
route_to_domain_HaltsOnError(st) ==
    IF st.error # None THEN "halted"
    ELSE IF st.domain = FINANCE THEN "finance"
    ELSE IF st.domain = HOUSING THEN "housing"
    ELSE IF st.domain = VISA THEN "visa"
    ELSE "rag"

\* route_to_domain whose default branch goes past rag, straight to risk.
route_to_domain_DefaultSkipsRag(st) ==
    IF st.domain = FINANCE THEN "finance"
    ELSE IF st.domain = HOUSING THEN "housing"
    ELSE IF st.domain = VISA THEN "visa"
    ELSE "risk"

\* The conditional edge after router.
route_to_domain(st) ==
    IF st.domain = FINANCE THEN "finance"
    ELSE IF st.domain = HOUSING THEN "housing"
    ELSE IF st.domain = VISA THEN "visa"
    ELSE "rag"

\* The fixed edges with rag wired to simulation instead of risk.
NextStage_RagToSimulation(stage) ==
    CASE stage \in {"finance", "housing", "visa"} -> "rag"
      [] stage = "rag" -> "simulation"
      [] stage = "risk" -> "simulation"
      [] stage = "simulation" -> "END"

\* The fixed edges with the specialized stages wired in a chain before rag.
NextStage_ChainsSpecialized(stage) ==
    CASE stage = "finance" -> "housing"
      [] stage = "housing" -> "visa"
      [] stage = "visa" -> "rag"
      [] stage = "rag" -> "risk"
      [] stage = "risk" -> "simulation"
      [] stage = "simulation" -> "END"

\* The fixed edges.
NextStage(stage) ==
    CASE stage \in {"finance", "housing", "visa"} -> "rag"
      [] stage = "rag" -> "risk"
      [] stage = "risk" -> "simulation"
      [] stage = "simulation" -> "END"

NumRaised == Cardinality({i \in 1..Len(trace) : trace[i].call = "raised"})

\* A stage's upstream call may be made to raise inside the stage.
CanRaise == NumRaised < MaxFaults

\* How a stage's upstream call ended: the service answered; the service failed and
\* the adapter returned its degraded value; the call raised inside the stage; or
\* the stage made no call.
CallOf(outcome) == IF outcome.kind \in {"text", "results"} THEN "answered" ELSE "failed"

\* How json.loads ends on a cleaned reply: with a value, or by raising.
ParseOutcome(text) ==
    IF JsonLoads(text).kind = "JSONDecodeError" THEN "JSONDecodeError" ELSE "parsed"

\* The run's record of a stage: its name, how its call ended, and the number of
\* valid descriptors the model's reply carried (simulation only).
Entered(stage, call, valid) ==
    trace' = Append(trace, [stage |-> stage, call |-> call, valid |-> valid])

RouterStage ==
    /\ pc = "router"
    /\ \/ \E outcome \in GeminiOutcomes(Texts(RouterTok, MaxRouterLen)) :
             /\ state' = router_agent(state, call_gemini_with_reasoning(outcome))
             /\ Entered("router", CallOf(outcome), 0)
       \/ /\ CanRaise
          /\ state' = router_agent_error(state, FaultMsg)
          /\ Entered("router", "raised", 0)
    /\ pc' = route_to_domain(state')
    /\ UNCHANGED <<documents_metadata, background, response>>
    /\ UNCHANGED direct

FinanceStage ==
    /\ pc = "finance"
    /\ \/ \E outcome \in GeminiOutcomes(Replies(DetailLines, MaxDetailLines)) :
             /\ state' = finance_agent(state, call_gemini_with_reasoning(outcome))
             /\ Entered("finance", CallOf(outcome), 0)
       \/ /\ CanRaise
          /\ state' = StageError(state, FaultMsg)
          /\ Entered("finance", "raised", 0)
    /\ pc' = NextStage("finance")
    /\ UNCHANGED <<documents_metadata, background, response>>
    /\ UNCHANGED direct

HousingStage ==
    /\ pc = "housing"
    /\ \/ \E outcome \in GeminiOutcomes(Replies(DetailLines, MaxDetailLines)) :
             /\ state' = housing_agent(state, call_gemini_with_reasoning(outcome))
             /\ Entered("housing", CallOf(outcome), 0)
       \/ /\ CanRaise
          /\ state' = StageError(state, FaultMsg)
          /\ Entered("housing", "raised", 0)
    /\ pc' = NextStage("housing")
    /\ UNCHANGED <<documents_metadata, background, response>>
    /\ UNCHANGED direct

VisaStage ==
    /\ pc = "visa"
    /\ \/ \E outcome \in GeminiOutcomes(Replies(DetailLines, MaxDetailLines)) :
             /\ state' = visa_agent(state, call_gemini_with_reasoning(outcome))
             /\ Entered("visa", CallOf(outcome), 0)
       \/ /\ CanRaise
          /\ state' = StageError(state, FaultMsg)
          /\ Entered("visa", "raised", 0)
    /\ pc' = NextStage("visa")
    /\ UNCHANGED <<documents_metadata, background, response>>
    /\ UNCHANGED direct

RagStage ==
    /\ pc = "rag"
    /\ \/ \E outcomes \in [1..Len(SearchQueries(state)) -> RetrievalOutcomes] :
             /\ state' = rag_agent(state,
                    [i \in 1..Len(outcomes) |-> GlobalRetrievalTool(outcomes[i], RagTopK)])
             /\ Entered("rag",
                        IF \E i \in 1..Len(outcomes) : outcomes[i].kind = "exception"
                        THEN "failed" ELSE "answered", 0)
       \/ /\ CanRaise
          /\ state' = StageError(state, FaultMsg)
          /\ Entered("rag", "raised", 0)
    /\ pc' = NextStage("rag")
    /\ UNCHANGED <<documents_metadata, background, response>>
    /\ UNCHANGED direct

RiskStage ==
    /\ pc = "risk"
    /\ \/ \E outcome \in GeminiOutcomes(Replies(RiskLines, MaxRiskLines)) :
             /\ state' = risk_agent(state, call_gemini_with_reasoning(outcome))
             /\ Entered("risk", CallOf(outcome), 0)
       \/ /\ CanRaise
          /\ state' = StageError(state, FaultMsg)
          /\ Entered("risk", "raised", 0)
    /\ pc' = NextStage("risk")
    /\ UNCHANGED <<documents_metadata, background, response>>
    /\ UNCHANGED direct

SimulationStage ==
    /\ pc = "simulation"
    /\ \/ /\ ~SimulationCallsModel(state)
          /\ state' = simulation_agent_empty(state)
          /\ Entered("simulation", "none", 0)
       \/ /\ SimulationCallsModel(state)
          /\ \E outcome \in SimOutcomes :
               /\ state' = simulation_agent(state, call_gemini_with_reasoning(outcome))
               /\ Entered("simulation", CallOf(outcome),
                           ValidInReply(call_gemini_with_reasoning(outcome)))
       \/ /\ SimulationCallsModel(state)
          /\ CanRaise
          /\ state' = simulation_agent_empty(state)
          /\ Entered("simulation", "raised", 0)
    /\ pc' = NextStage("simulation")
    /\ UNCHANGED <<documents_metadata, background, response>>
    /\ UNCHANGED direct

(***************************************************************************)
(* routers/analyze.py                                                      *)
(***************************************************************************)
ClauseLimit == 10

RedFlagLimit == 5

\* The AnalyzeResponse of a missing or unprocessed document; the risk score is
\* written in hundredths.
Placeholder(session_id, reasoning, summary) ==
    [kind |-> "response",
     session_id |-> session_id,
     domain |-> UNKNOWN,
     risk_score |-> 0,
     risk_level |-> "LOW",
     risk_reasoning |-> reasoning,
     clauses |-> <<>>,
     obligations |-> <<>>,
     red_flags |-> <<>>,
     resources |-> <<>>,
     summary |-> summary,
     recommendations |-> <<>>,
     available_simulations |-> <<>>]

\* The level and the score read off the risk_assessment text.
RiskLevelOf(risk_assessment) ==
    IF ContainsWord(Lower(risk_assessment), "high") THEN "HIGH"
    ELSE IF ContainsWord(Lower(risk_assessment), "low") THEN "LOW"
    ELSE "MEDIUM"

\* The score mapping with the default branch giving the LOW score.
RiskScoreOf_DefaultIsLowScore(risk_assessment) ==
    IF ContainsWord(Lower(risk_assessment), "high") THEN 75
    ELSE 25

RiskScoreOf(risk_assessment) ==
    IF ContainsWord(Lower(risk_assessment), "high") THEN 75
    ELSE IF ContainsWord(Lower(risk_assessment), "low") THEN 25
    ELSE 50

Recommendations(risk_assessment) ==
    (IF ContainsWord(Lower(risk_assessment), "high")
     THEN <<"Seek guidance from relevant campus office before proceeding">> ELSE <<>>)
    \o (IF ContainsWord(Lower(risk_assessment), "penalty")
        THEN <<"Understand all penalties and deadlines clearly">> ELSE <<>>)
    \o (IF ContainsWord(Lower(risk_assessment), "compliance")
        THEN <<"Ensure full compliance with all requirements">> ELSE <<>>)
    \o <<"Ask questions about any unclear terms">>

\* risk_assessment.lower() is reached with None when the risk stage left the
\* field unset: the AttributeError leaves analyze_document through its re-raise.
AnalyzeRaises(fs) == fs.risk_assessment = None

\* The response built from a final state whose risk_assessment is a string.
AnalyzeResponse(fs) ==
    LET risk_assessment == Get(fs.risk_assessment)
    IN  [kind |-> "response",
         session_id |-> fs.session_id,
         domain |-> fs.domain,
         risk_score |-> RiskScoreOf(risk_assessment),
         risk_level |-> RiskLevelOf(risk_assessment),
         risk_reasoning |-> IF risk_assessment # <<>> THEN risk_assessment
                            ELSE <<"Analysis complete">>,
         clauses |-> Take(fs.clauses, ClauseLimit),
         obligations |-> fs.obligations,
         red_flags |-> Take(fs.red_flags, RedFlagLimit),
         resources |-> fs.resources,
         summary |-> IF risk_assessment # <<>> THEN risk_assessment
                     ELSE <<"Document analyzed.">>,
         recommendations |-> Recommendations(risk_assessment),
         available_simulations |-> fs.simulation_options]

\* The $set of the stored analysis.
StoredAnalysis(doc, fs) ==
    LET risk_assessment == Get(fs.risk_assessment)
    IN  [doc EXCEPT !.domain = Some(fs.domain),
                    !.analysis_results = Some(
                        [risk_assessment |-> risk_assessment,
                         risk_level |-> RiskLevelOf(risk_assessment),
                         red_flags |-> fs.red_flags,
                         obligations |-> fs.obligations,
                         simulation_options |-> fs.simulation_options])]

\* analyze_document without the processed_flag gate: any record found is analysed.
analyze_begin_SkipsProcessedGate ==
    /\ pc = "idle"
    /\ LET found == FindOne(SessionId)
       IN  IF found = None
           THEN /\ response' = Placeholder(SessionId, <<"Document not found in system.">>,
                                           <<"Document not found">>)
                /\ UNCHANGED <<pc, state, trace>>
           ELSE /\ state' = InitialState(SessionId,
                       IF Get(found).raw_text = None THEN <<>> ELSE Get(Get(found).raw_text))
                /\ pc' = "router"
                /\ trace' = <<>>
                /\ response' = NoResponse
    /\ UNCHANGED <<documents_metadata, background>>
    /\ UNCHANGED direct

\* analyze_document up to the call of run_analysis_workflow.
analyze_begin ==
    /\ pc = "idle"
    /\ LET found == FindOne(SessionId)
       IN  IF found = None
           THEN /\ response' = Placeholder(SessionId, <<"Document not found in system.">>,
                                           <<"Document not found">>)
                /\ UNCHANGED <<pc, state, trace>>
           ELSE IF ~Get(found).processed_flag
           THEN /\ response' = Placeholder(SessionId, <<"Document is still being processed.">>,
                       <<"Document still processing. Please retry in a moment.">>)
                /\ UNCHANGED <<pc, state, trace>>
           ELSE /\ state' = InitialState(SessionId,
                       IF Get(found).raw_text = None THEN <<>> ELSE Get(Get(found).raw_text))
                /\ pc' = "router"
                /\ trace' = <<>>
                /\ response' = NoResponse
    /\ UNCHANGED <<documents_metadata, background>>
    /\ UNCHANGED direct

\* analyze_document from the return of run_analysis_workflow on: the graph has
\* reached END and final_state is the run's state.
analyze_finish ==
    /\ pc = "END"
    /\ LET final_state == state
       IN  IF AnalyzeRaises(final_state)
           THEN /\ response' = [kind |-> "exception"]
                /\ UNCHANGED documents_metadata
           ELSE /\ response' = AnalyzeResponse(final_state)
                /\ documents_metadata' =
                       UpdateOne(SessionId,
                                 StoredAnalysis(Get(FindOne(SessionId)), final_state))
    /\ pc' = "done"
    /\ UNCHANGED <<background, state, trace>>
    /\ UNCHANGED direct

Next ==
    \/ upload_document
    \/ process_file_background
    \/ analyze_begin
    \/ RouterStage
    \/ FinanceStage
    \/ HousingStage
    \/ VisaStage
    \/ RagStage
    \/ RiskStage
    \/ SimulationStage
    \/ analyze_finish

Spec == Init /\ [][Next]_vars

(***************************************************************************)
(* The tail of a run from the risk stage on, taken alone: risk_agent on    *)
(* the state the earlier stages left, simulation_agent, and the response   *)
(* analyze_document builds from the final state.                           *)
(***************************************************************************)
\* The analyze run and the stored records, at rest.
AnalyzeAtRest ==
    /\ documents_metadata = {}
    /\ background = "none"
    /\ pc = "idle"
    /\ state = NoState
    /\ response = NoResponse
    /\ trace = <<>>

analyze_vars == <<documents_metadata, background, pc, state, response, trace>>

\* The risk replies with a line naming each of the other levels as well.
RiskLevelLines ==
    RiskLines \cup {<<"RISK_LEVEL:", " ", "low">>, <<"RISK_LEVEL:", " ", "Medium">>}

RiskInit ==
    /\ AnalyzeAtRest
    /\ risk_run \in
           {[phase |-> "ready",
             st |-> [InitialState(SessionId, DocText) EXCEPT !.domain = d],
             outcome |-> o] :
                d \in Domains, o \in GeminiOutcomes(Replies(RiskLevelLines, MaxRiskLines))}
    /\ simulate_call = Idle
    /\ translate_call = Idle
    /\ retrieval_call = Idle
    /\ runs = <<>>
    /\ heap = <<>>
    /\ router_call = Idle
    /\ score_call = Idle
    /\ rag_call = Idle
    /\ sessions = Idle

risk_to_response ==
    /\ risk_run.phase = "ready"
    /\ LET analysis == call_gemini_with_reasoning(risk_run.outcome)
           after_risk == risk_agent(risk_run.st, analysis)
           final_state == IF SimulationCallsModel(after_risk)
                          THEN simulation_agent(after_risk, <<>>)
                          ELSE simulation_agent_empty(after_risk)
       IN  risk_run' = [phase |-> "returned",
                        call |-> CallOf(risk_run.outcome),
                        analysis |-> analysis,
                        risk_level |-> ParsedRiskLevel(analysis),
                        response |-> AnalyzeResponse(final_state)]
    /\ UNCHANGED <<analyze_vars, simulate_call, translate_call, retrieval_call, runs, heap,
                 router_call, score_call, rag_call, sessions>>

RiskNext == risk_to_response

RiskSpec == RiskInit /\ [][RiskNext]_vars

(***************************************************************************)
(* routers/simulate.py                                                     *)
(* A JSON value is written as its literal; a JSON object or a Python dict   *)
(* is a set of <<key, literal>> pairs.                                     *)
(***************************************************************************)
HasKey(dict, key) == \E p \in dict : p[1] = key

\* dict.get(key, default)
DictGet(dict, key, default) ==
    IF HasKey(dict, key) THEN (CHOOSE p \in dict : p[1] = key)[2] ELSE default

NumberLiterals == {"0", "3", "1500"}

NumericStrings == {"\"1500\""}

JsonType(lit) ==
    CASE lit = "null" -> "null"
      [] lit \in {"true", "false"} -> "bool"
      [] lit \in NumberLiterals -> "num"
      [] OTHER -> "str"

\* float(value) raises TypeError on None and ValueError on a string that is not
\* a number.
FloatRaises(lit) ==
    \/ JsonType(lit) = "null"
    \/ JsonType(lit) = "str" /\ lit \notin NumericStrings

\* round(float(value), 2), for the values float accepts.
Float(lit) ==
    CASE lit \in {"1500", "\"1500\""} -> 1500
      [] lit = "3" -> 3
      [] lit = "true" -> 1
      [] OTHER -> 0

\* SIMULATION_FORMULAS: the predefined scenario types, one per domain here.
SIMULATION_FORMULAS ==
    {[scenario_type |-> "early_termination",
      label |-> "Early Lease Termination",
      required_params |-> <<"base_penalty", "months_remaining", "monthly_penalty">>,
      domain |-> "housing"],
     [scenario_type |-> "withdrawal_refund",
      label |-> "Mid-Semester Withdrawal Refund",
      required_params |-> <<"tuition", "weeks_completed", "total_weeks">>,
      domain |-> "finance"],
     [scenario_type |-> "work_hours_violation",
      label |-> "Work Hour Violation Risk",
      required_params |-> <<"hours_worked", "max_allowed_hours">>,
      domain |-> "visa"]}

IsPredefined(scenario_type) == \E f \in SIMULATION_FORMULAS : f.scenario_type = scenario_type

\* The scenario's domain: the table's, or "general" for a dynamic scenario.
ScenarioDomain(scenario_type) ==
    IF IsPredefined(scenario_type)
    THEN (CHOOSE f \in SIMULATION_FORMULAS : f.scenario_type = scenario_type).domain
    ELSE "general"

\* Building the prompt evaluates weeks <= 2 for withdrawal_refund, a TypeError
\* when weeks_completed is a string or None.
PromptRaises(scenario_type, parameters) ==
    /\ scenario_type = "withdrawal_refund"
    /\ JsonType(DictGet(parameters, "weeks_completed", "0")) \notin {"num", "bool"}

FullReply ==
    "{\"result\": 1500, \"severity\": \"HIGH\", \"reasoning\": \"r\", \"is_risk\": false}"

WordResultReply ==
    "{\"result\": \"unknown\", \"severity\": \"HIGH\", \"reasoning\": \"r\", \"is_risk\": true}"

NullResultReply ==
    "{\"result\": null, \"severity\": \"LOW\", \"reasoning\": \"r\", \"is_risk\": false}"

StringResultReply == "{\"result\": \"1500\", \"reasoning\": \"r\"}"

NullSeverityReply == "{\"result\": 3, \"severity\": null}"

\* json.loads on a cleaned reply of the simulation prompt.
SimulationLoads(text) ==
    IF Len(text) # 1 THEN [kind |-> "JSONDecodeError", value |-> {}]
    ELSE CASE text[1] = FullReply ->
                  [kind |-> "object",
                   value |-> {<<"result", "1500">>, <<"severity", "\"HIGH\"">>,
                              <<"reasoning", "\"r\"">>, <<"is_risk", "false">>}]
           [] text[1] = WordResultReply ->
                  [kind |-> "object",
                   value |-> {<<"result", "\"unknown\"">>, <<"severity", "\"HIGH\"">>,
                              <<"reasoning", "\"r\"">>, <<"is_risk", "true">>}]
           [] text[1] = NullResultReply ->
                  [kind |-> "object",
                   value |-> {<<"result", "null">>, <<"severity", "\"LOW\"">>,
                              <<"reasoning", "\"r\"">>, <<"is_risk", "false">>}]
           [] text[1] = StringResultReply ->
                  [kind |-> "object",
                   value |-> {<<"result", "\"1500\"">>, <<"reasoning", "\"r\"">>}]
           [] text[1] = NullSeverityReply ->
                  [kind |-> "object",
                   value |-> {<<"result", "3">>, <<"severity", "null">>}]
           [] text[1] = "{}" -> [kind |-> "object", value |-> {}]
           [] text[1] = "[]" -> [kind |-> "array", value |-> {}]
           [] OTHER -> [kind |-> "JSONDecodeError", value |-> {}]

\* The dict the except branch of get_gemini_simulation returns.
SimulationError ==
    {<<"result", "0">>, <<"severity", "\"ERROR\"">>,
     <<"reasoning", "\"Simulation error\"">>, <<"is_risk", "false">>}

\* get_gemini_simulation: the prompt is built outside the try; inside it there
\* is one call of the model, the cleaning of the reply, json.loads and
\* result.get, and every exception there gives the error dict.
get_gemini_simulation(scenario_type, parameters, outcome) ==
    IF PromptRaises(scenario_type, parameters)
    THEN [kind |-> "raise", value |-> {}, calls |-> 0, parsed |-> "none"]
    ELSE IF outcome.kind = "exception"
    THEN [kind |-> "return", value |-> SimulationError, calls |-> 1, parsed |-> "none"]
    ELSE LET loaded == SimulationLoads(CleanResponse(outcome.text))
         IN  [kind |-> "return",
              value |-> IF loaded.kind = "object" THEN loaded.value ELSE SimulationError,
              calls |-> 1,
              parsed |-> IF loaded.kind = "JSONDecodeError"
                         THEN "JSONDecodeError" ELSE "parsed"]

\* SimulateResponse(...) rejects None for its str fields.
ValidationRaises(explanation, severity) ==
    JsonType(explanation) = "null" \/ JsonType(severity) = "null"

HTTPException500 == [kind |-> "HTTPException"]

\* run_simulation, what it answers.
SimulateAnswer(scenario_type, parameters, outcome) ==
    LET gemini == get_gemini_simulation(scenario_type, parameters, outcome)
        result == DictGet(gemini.value, "result", "0")
        explanation == DictGet(gemini.value, "reasoning", "\"Assessment completed.\"")
        severity == DictGet(gemini.value, "severity", "\"UNKNOWN\"")
        is_risk == DictGet(gemini.value, "is_risk", "false")
    IN  IF gemini.kind = "raise" THEN HTTPException500
        ELSE IF FloatRaises(result) \/ ValidationRaises(explanation, severity)
        THEN HTTPException500
        ELSE [kind |-> "response",
              scenario_type |-> scenario_type,
              domain |-> ScenarioDomain(scenario_type),
              exposure_estimate |-> Float(result),
              explanation |-> explanation,
              severity |-> severity,
              is_risk |-> is_risk]

ScenarioTypes ==
    {"early_termination", "withdrawal_refund", "work_hours_violation", "roommate_dispute"}

ParameterMaps ==
    {{}, {<<"weeks_completed", "3">>}, {<<"weeks_completed", "\"three\"">>},
     {<<"months_remaining", "3">>}}

SimulationReplies ==
    UNION {{<<b>>,
            <<Fence, "json", NL>> \o <<b>> \o <<NL, Fence>>,
            <<"Sure:", NL, b>>} :
              b \in {FullReply, WordResultReply, NullResultReply, StringResultReply,
                     NullSeverityReply, "{}", "[]", "I cannot help"}}

\* The states simulation_agent is entered with: a run that has passed the risk
\* stage, its domain one of the four or the empty text the router leaves for a
\* reply of DOMAIN: alone.
ExtractionStates ==
    {[InitialState(SessionId, DocText) EXCEPT !.domain = d, !.risk_assessment = Some(<<>>)] :
        d \in Domains \cup {<<>>}}

\* A request to run_simulation (simulation execution), or a call of
\* simulation_agent (simulation extraction), with the model's reply to it.
SimulateInit ==
    /\ AnalyzeAtRest
    /\ simulate_call \in
           {[phase |-> "ready", op |-> "run_simulation", scenario_type |-> t,
             parameters |-> p, st |-> NoState, outcome |-> o] :
                t \in ScenarioTypes, p \in ParameterMaps,
                o \in GeminiOutcomes(SimulationReplies)}
           \cup
           {[phase |-> "ready", op |-> "simulation_agent", scenario_type |-> "",
             parameters |-> {}, st |-> st, outcome |-> o] :
                st \in ExtractionStates, o \in SimOutcomes}
    /\ risk_run = Idle
    /\ translate_call = Idle
    /\ retrieval_call = Idle
    /\ runs = <<>>
    /\ heap = <<>>
    /\ router_call = Idle
    /\ score_call = Idle
    /\ rag_call = Idle
    /\ sessions = Idle

run_simulation ==
    /\ simulate_call.phase = "ready"
    /\ simulate_call.op = "run_simulation"
    /\ LET t == simulate_call.scenario_type
           p == simulate_call.parameters
           o == simulate_call.outcome
       IN  simulate_call' =
               [phase |-> "returned",
                op |-> "run_simulation",
                scenario_type |-> t,
                parameters |-> p,
                outcome |-> o,
                calls |-> get_gemini_simulation(t, p, o).calls,
                parsed |-> get_gemini_simulation(t, p, o).parsed,
                response |-> SimulateAnswer(t, p, o)]
    /\ UNCHANGED <<analyze_vars, risk_run, translate_call, retrieval_call, runs, heap,
                 router_call, score_call, rag_call, sessions>>

\* simulation_agent: for one of the three domains one call of the adapter, then
\* the parse of its reply; for any other domain the short circuit.
simulation_agent_call ==
    /\ simulate_call.phase = "ready"
    /\ simulate_call.op = "simulation_agent"
    /\ LET reply == call_gemini_with_reasoning(simulate_call.outcome)
       IN  simulate_call' =
               IF SimulationCallsModel(simulate_call.st)
               THEN [phase |-> "returned",
                     op |-> "simulation_agent",
                     domain |-> simulate_call.st.domain,
                     outcome |-> simulate_call.outcome,
                     calls |-> 1,
                     parsed |-> ParseOutcome(CleanResponse(reply)),
                     simulation_options |->
                         simulation_agent(simulate_call.st, reply).simulation_options]
               ELSE [phase |-> "returned",
                     op |-> "simulation_agent",
                     domain |-> simulate_call.st.domain,
                     outcome |-> simulate_call.outcome,
                     calls |-> 0,
                     parsed |-> "none",
                     simulation_options |->
                         simulation_agent_empty(simulate_call.st).simulation_options]
    /\ UNCHANGED <<analyze_vars, risk_run, translate_call, retrieval_call, runs, heap,
                 router_call, score_call, rag_call, sessions>>

SimulateNext == run_simulation \/ simulation_agent_call

SimulateSpec == SimulateInit /\ [][SimulateNext]_vars

(***************************************************************************)
(* tools/retrieval_tool.py, called on its own.                             *)
(***************************************************************************)
RetrievalInit ==
    /\ AnalyzeAtRest
    /\ retrieval_call \in
           {[phase |-> "ready", outcome |-> o, top_k |-> k] :
                o \in SearchOutcomes, k \in 1..MaxTopK}
    /\ risk_run = Idle
    /\ simulate_call = Idle
    /\ translate_call = Idle
    /\ runs = <<>>
    /\ heap = <<>>
    /\ router_call = Idle
    /\ score_call = Idle
    /\ rag_call = Idle
    /\ sessions = Idle

retrieval_tool_call ==
    /\ retrieval_call.phase = "ready"
    /\ retrieval_call' =
           [phase |-> "returned",
            outcome |-> retrieval_call.outcome,
            top_k |-> retrieval_call.top_k,
            result |-> GlobalRetrievalToolCall(retrieval_call.outcome,
                                               retrieval_call.top_k)]
    /\ UNCHANGED <<analyze_vars, risk_run, simulate_call, translate_call, runs, heap,
                 router_call, score_call, rag_call, sessions>>

RetrievalNext == retrieval_tool_call

RetrievalSpec == RetrievalInit /\ [][RetrievalNext]_vars

(***************************************************************************)
(* routers/translate.py and translation_agent of agents/specialized_agents *)
(***************************************************************************)
\* translation_agent: the state it returns and the model calls it made.
translation_agent(st, outcome) ==
    LET summary == DictGet(st.risk_output, "summary", <<>>)
    IN  IF st.language = "en"
        THEN [state |-> [st EXCEPT !.translation = Some(summary)], calls |-> 0]
        ELSE IF outcome.kind = "exception"
        THEN [state |-> [st EXCEPT !.error = Some(outcome.text)], calls |-> 1]
        ELSE [state |-> [st EXCEPT !.translation = Some(Strip(outcome.text))],
              calls |-> 1]

\* The keys translate_summary looks up in the stored analysis_results.
TranslateReads == {"domain", "risk_output"}

\* The state translate_summary builds for the agent from the stored analysis,
\* which holds neither a domain nor a risk_output key.
TranslationState(session_id, target_language) ==
    [session_id |-> session_id,
     raw_text |-> <<>>,
     domain |-> UNKNOWN,
     language |-> target_language,
     clauses |-> <<>>,
     risk_output |-> {},
     resources |-> <<>>,
     translation |-> None,
     scenario |-> None,
     error |-> None]

\* translate_summary: the placeholder when there is no record or no analysis,
\* else the agent's translation; TranslateResponse rejects None for its text.
TranslateAnswer(found, target_language, outcome) ==
    IF found = None \/ Get(found).analysis_results = None
    THEN [kind |-> "response", ran |-> FALSE, calls |-> 0,
          language |-> target_language, summary |-> <<>>,
          translated_text |-> <<"No analysis found for this session">>]
    ELSE LET st == TranslationState(SessionId, target_language)
             run == translation_agent(st, outcome)
         IN  [kind |-> IF run.state.translation = None THEN "exception" ELSE "response",
              ran |-> TRUE,
              calls |-> run.calls,
              language |-> target_language,
              summary |-> DictGet(st.risk_output, "summary", <<>>),
              translated_text |-> IF run.state.translation = None
                                  THEN <<>> ELSE Get(run.state.translation)]

TargetLanguages == {"en", "es"}

TranslationReplies == {<<>>, <<"Documento analizado.">>, <<" ", "Hola", NL>>}

\* The record of the session as upload_document leaves it.
UploadedRecord ==
    [_id |-> SessionId, processed_flag |-> FALSE, raw_text |-> None,
     error |-> None, domain |-> None, analysis_results |-> None]

\* Final states of a run, as far as the stored analysis depends on them.
AnalysedStates ==
    {[InitialState(SessionId, DocText) EXCEPT
          !.domain = d, !.risk_assessment = Some(<<>>), !.red_flags = f, !.obligations = o] :
        d \in Domains,
        f \in {<<>>, <<<<"late fee">>, <<"no termination clause">>>>},
        o \in {<<>>, <<<<"Pay $2,000 deposit by March 1">>>>}}

\* The collection as the program leaves it: empty, the record uploaded, the
\* record processed, the record with a stored analysis.
StoredCollections ==
    {{}, {UploadedRecord},
     {[UploadedRecord EXCEPT !.processed_flag = TRUE, !.raw_text = Some(DocText)]}}
      \cup {{StoredAnalysis([UploadedRecord EXCEPT !.processed_flag = TRUE,
                                                   !.raw_text = Some(DocText)], fs)} :
                fs \in AnalysedStates}

TranslateInit ==
    /\ documents_metadata \in StoredCollections
    /\ background = "none"
    /\ pc = "idle"
    /\ state = NoState
    /\ response = NoResponse
    /\ trace = <<>>
    /\ translate_call \in
           {[phase |-> "ready", target_language |-> l, outcome |-> o] :
                l \in TargetLanguages, o \in GeminiOutcomes(TranslationReplies)}
    /\ risk_run = Idle
    /\ simulate_call = Idle
    /\ retrieval_call = Idle
    /\ runs = <<>>
    /\ heap = <<>>
    /\ router_call = Idle
    /\ score_call = Idle
    /\ rag_call = Idle
    /\ sessions = Idle

translate_summary ==
    /\ translate_call.phase = "ready"
    /\ translate_call' =
           [phase |-> "returned",
            target_language |-> translate_call.target_language,
            outcome |-> translate_call.outcome,
            answer |-> TranslateAnswer(FindOne(SessionId),
                                       translate_call.target_language,
                                       translate_call.outcome)]
    /\ UNCHANGED <<analyze_vars, risk_run, simulate_call, retrieval_call, runs, heap,
                 router_call, score_call, rag_call, sessions>>

TranslateNext == translate_summary

TranslateSpec == TranslateInit /\ [][TranslateNext]_vars

(***************************************************************************)
(* Two pipeline runs for distinct sessions, their stages interleaved.      *)
(* The lists of an AgentState are objects on a heap: state["clauses"]      *)
(* .append, state["obligations"].extend and state["red_flags"].extend      *)
(* change the object in place, every other field is assigned.              *)
(***************************************************************************)
RunIds == {1, 2}

SessionOf(r) == IF r = 1 THEN "s1" ELSE "s2"

\* The external replies of one run, stage by stage.
Scripts ==
    [router : {<<"DOMAIN:", " ", "housing">>, <<"DOMAIN:", " ", "finance">>, <<"unknown">>},
     detail : {<<"U+2022", " ", "Pay $2,000 deposit by March 1">>, <<"Fees:">>},
     rag : {[kind |-> "results", items |-> <<[clause_text |-> "clause A", score |-> 1]>>]},
     risk : {<<"RED_FLAGS:", " ", "late fee", ",", " ", "no termination clause">>,
             <<"RISK_LEVEL:", " ", "HIGH">>},
     simulation : {<<JsonOpen, FullDescriptor, JsonClose>>}]

\* One stage of the graph on a state, with the script's reply for it.
ApplyStage(stage, st, script) ==
    CASE stage = "router" -> router_agent(st, script.router)
      [] stage = "finance" -> finance_agent(st, script.detail)
      [] stage = "housing" -> housing_agent(st, script.detail)
      [] stage = "visa" -> visa_agent(st, script.detail)
      [] stage = "rag" ->
             rag_agent(st, [i \in 1..Len(SearchQueries(st)) |->
                               GlobalRetrievalTool(script.rag, RagTopK)])
      [] stage = "risk" -> risk_agent(st, script.risk)
      [] stage = "simulation" ->
             IF SimulationCallsModel(st)
             THEN simulation_agent(st, script.simulation)
             ELSE simulation_agent_empty(st)

\* The stage the graph runs after a stage.
StageAfter(stage, st) ==
    IF stage = "router" THEN route_to_domain(st) ELSE NextStage(stage)

\* A run taken alone: graph.invoke from a stage on.
RECURSIVE RunAlone(_, _, _)
RunAlone(stage, st, script) ==
    IF stage = "END" THEN st
    ELSE RunAlone(StageAfter(stage, ApplyStage(stage, st, script)),
                  ApplyStage(stage, st, script), script)

\* The three list objects of a new AgentState, all runs given the same objects.
NewLists_SharedAcrossRuns(h) == [clauses |-> 1, obligations |-> 2, red_flags |-> 3]

\* The three list objects of a new AgentState: the literals [] of
\* run_analysis_workflow make new objects at every call.
NewLists(h) ==
    [clauses |-> Len(h) + 1, obligations |-> Len(h) + 2, red_flags |-> Len(h) + 3]

\* The heap with the objects at the given addresses added where missing.
WithObjects(h, refs) ==
    LET top == IF refs.red_flags > Len(h) THEN refs.red_flags ELSE Len(h)
    IN  [a \in 1..top |-> IF a <= Len(h) THEN h[a] ELSE <<>>]

\* A state as the run sees it: its list fields read through their addresses.
Deref(st, h) ==
    [st EXCEPT !.clauses = h[st.clauses],
               !.obligations = h[st.obligations],
               !.red_flags = h[st.red_flags]]

\* The heap after a stage changed the run's list objects in place.
Store(h, st, new) ==
    [a \in DOMAIN h |->
        IF a = st.clauses THEN new.clauses
        ELSE IF a = st.obligations THEN new.obligations
        ELSE IF a = st.red_flags THEN new.red_flags
        ELSE h[a]]

\* The run's state after a stage: fields assigned, list fields the same objects.
Rebind(new, st) ==
    [new EXCEPT !.clauses = st.clauses,
                !.obligations = st.obligations,
                !.red_flags = st.red_flags]

ConcurrentInit ==
    /\ AnalyzeAtRest
    /\ risk_run = Idle
    /\ simulate_call = Idle
    /\ translate_call = Idle
    /\ retrieval_call = Idle
    /\ runs \in [RunIds -> {[pc |-> "new", st |-> NoState, script |-> sc] : sc \in Scripts}]
    /\ heap = <<>>
    /\ router_call = Idle
    /\ score_call = Idle
    /\ rag_call = Idle
    /\ sessions = Idle

\* run_analysis_workflow up to graph.invoke: the initial state with new lists.
run_analysis_workflow_begin(r) ==
    /\ runs[r].pc = "new"
    /\ LET refs == NewLists(heap)
       IN  /\ heap' = WithObjects(heap, refs)
           /\ runs' = [runs EXCEPT
                  ![r].pc = "router",
                  ![r].st = [InitialState(SessionOf(r), DocText) EXCEPT
                                !.clauses = refs.clauses,
                                !.obligations = refs.obligations,
                                !.red_flags = refs.red_flags]]
    /\ UNCHANGED <<analyze_vars, risk_run, simulate_call, translate_call, retrieval_call,
                 router_call, score_call, rag_call, sessions>>

\* One stage of one run.
run_stage(r) ==
    /\ runs[r].pc \in StageNames
    /\ LET new == ApplyStage(runs[r].pc, Deref(runs[r].st, heap), runs[r].script)
       IN  /\ heap' = Store(heap, runs[r].st, new)
           /\ runs' = [runs EXCEPT ![r].pc = StageAfter(runs[r].pc, new),
                                    ![r].st = Rebind(new, runs[r].st)]
    /\ UNCHANGED <<analyze_vars, risk_run, simulate_call, translate_call, retrieval_call,
                 router_call, score_call, rag_call, sessions>>

ConcurrentNext ==
    \E r \in RunIds : run_analysis_workflow_begin(r) \/ run_stage(r)

ConcurrentSpec == ConcurrentInit /\ [][ConcurrentNext]_vars

(***************************************************************************)
(* router_agent called on its own: one reply of the model, or a failure of *)
(* the service, and the domain the stage writes.                           *)
(***************************************************************************)
RouterInit ==
    /\ AnalyzeAtRest
    /\ router_call \in
           {[phase |-> "ready", outcome |-> o] :
                o \in GeminiOutcomes(Texts(RouterTok, MaxRouterLen))}
    /\ risk_run = Idle
    /\ simulate_call = Idle
    /\ translate_call = Idle
    /\ retrieval_call = Idle
    /\ runs = <<>>
    /\ heap = <<>>
    /\ score_call = Idle
    /\ rag_call = Idle
    /\ sessions = Idle

router_agent_call ==
    /\ router_call.phase = "ready"
    /\ LET analysis == call_gemini_with_reasoning(router_call.outcome)
       IN  router_call' =
               [phase |-> "returned",
                call |-> CallOf(router_call.outcome),
                analysis |-> analysis,
                domain |-> router_agent(InitialState(SessionId, DocText), analysis).domain]
    /\ UNCHANGED <<analyze_vars, risk_run, simulate_call, translate_call, retrieval_call,
                   runs, heap, score_call, rag_call, sessions>>

RouterNext == router_agent_call

RouterSpec == RouterInit /\ [][RouterNext]_vars

(***************************************************************************)
(* models/risk_models.py: RiskModel.  A float indicator is written as a    *)
(* whole number of steps, IndicatorSteps steps to 1.0, and a score as a    *)
(* whole number of units, ScoreOne units to 1.0; the weights are written   *)
(* in hundredths.                                                          *)
(***************************************************************************)
IndicatorSteps == 4

ScoreOne == 100 * IndicatorSteps

\* The thresholds of risk_level_from_score, in hundredths.
LowBelow == 40

MediumBelow == 70

\* The indicator values tried: the range [0, 1] and values on either side of it.
IndicatorValues == (0 - 2)..(IndicatorSteps + 2)

\* The scores risk_level_from_score is tried on directly.
ScoreValues == (0 - 10)..(ScoreOne + 10)

Max(a, b) == IF a >= b THEN a ELSE b

\* min(1.0, max(0.0, score))
ClampScore(score) == Min(ScoreOne, Max(0, score))

finance_risk_score(financial_exposure, penalty_escalation, deadline_sensitivity) ==
    ClampScore(40 * financial_exposure + 30 * penalty_escalation
                   + 30 * deadline_sensitivity)

housing_risk_score(termination_penalty, liability_clause, payment_obligation) ==
    ClampScore(35 * termination_penalty + 35 * liability_clause
                   + 30 * payment_obligation)

\* The level mapping with a score of exactly 0.4 counted as LOW and one of
\* exactly 0.7 as MEDIUM.
risk_level_from_score_BoundaryInLowerBand(score) ==
    IF 100 * score <= LowBelow * ScoreOne THEN "LOW"
    ELSE IF 100 * score <= MediumBelow * ScoreOne THEN "MEDIUM"
    ELSE "HIGH"

risk_level_from_score(score) ==
    IF 100 * score < LowBelow * ScoreOne THEN "LOW"
    ELSE IF 100 * score < MediumBelow * ScoreOne THEN "MEDIUM"
    ELSE "HIGH"

ScoreInit ==
    /\ AnalyzeAtRest
    /\ score_call \in
           {[phase |-> "ready", op |-> f, args |-> <<a, b, c>>] :
                f \in {"finance_risk_score", "housing_risk_score"},
                a \in IndicatorValues, b \in IndicatorValues, c \in IndicatorValues}
           \cup
           {[phase |-> "ready", op |-> "risk_level_from_score", args |-> <<s>>] :
                s \in ScoreValues}
    /\ risk_run = Idle
    /\ simulate_call = Idle
    /\ translate_call = Idle
    /\ retrieval_call = Idle
    /\ runs = <<>>
    /\ heap = <<>>
    /\ router_call = Idle
    /\ rag_call = Idle
    /\ sessions = Idle

\* What a call leaves: the score and the level risk_level_from_score gives it.
Scored(score) ==
    /\ score_call' = [phase |-> "returned",
                      op |-> score_call.op,
                      args |-> score_call.args,
                      score |-> score,
                      level |-> risk_level_from_score(score)]
    /\ UNCHANGED <<analyze_vars, risk_run, simulate_call, translate_call, retrieval_call,
                   runs, heap, router_call, rag_call, sessions>>

finance_risk_score_call ==
    /\ score_call.phase = "ready"
    /\ score_call.op = "finance_risk_score"
    /\ Scored(finance_risk_score(score_call.args[1], score_call.args[2],
                                 score_call.args[3]))

housing_risk_score_call ==
    /\ score_call.phase = "ready"
    /\ score_call.op = "housing_risk_score"
    /\ Scored(housing_risk_score(score_call.args[1], score_call.args[2],
                                 score_call.args[3]))

risk_level_from_score_call ==
    /\ score_call.phase = "ready"
    /\ score_call.op = "risk_level_from_score"
    /\ Scored(score_call.args[1])

ScoreNext ==
    \/ finance_risk_score_call
    \/ housing_risk_score_call
    \/ risk_level_from_score_call

ScoreSpec == ScoreInit /\ [][ScoreNext]_vars

(***************************************************************************)
(* A run from router to the end of rag, taken alone, over an index that    *)
(* holds enough distinct clauses for two searches to return different ones.*)
(***************************************************************************)
\* The clauses of the index, more than two searches of top_k=3 can return.
IndexedClauses ==
    <<[clause_text |-> "clause 1", score |-> 3], [clause_text |-> "clause 2", score |-> 2],
      [clause_text |-> "clause 3", score |-> 1], [clause_text |-> "clause 4", score |-> 3],
      [clause_text |-> "clause 5", score |-> 2], [clause_text |-> "clause 6", score |-> 1],
      [clause_text |-> "clause 7", score |-> 3], [clause_text |-> "clause 8", score |-> 2],
      [clause_text |-> "clause 9", score |-> 1], [clause_text |-> "clause 10", score |-> 3]>>

\* The ranked candidates of one search: a stretch of the index of at most
\* MaxCandidates clauses, starting where it overlaps an earlier search's wholly,
\* partly or not at all; or a failure.
RagSearchOutcomes ==
    {[kind |-> "results", items |-> SubSeq(IndexedClauses, a, a + n - 1)] :
        a \in {1, RagTopK, RagTopK + 1}, n \in 0..MaxCandidates}
        \cup {[kind |-> "database unreachable", items |-> <<>>]}

\* The router replies that lead to each branch of route_to_domain.
RagRouterReplies ==
    {<<"DOMAIN:", " ", d>> : d \in {"finance", "housing", "visa", "unknown"}}
        \cup {<<"DOMAIN:">>, <<"visa">>}

RagInit ==
    /\ AnalyzeAtRest
    /\ rag_call = [pc |-> "router",
                   st |-> InitialState(SessionId, DocText),
                   queries |-> <<>>,
                   retrieved |-> 0]
    /\ risk_run = Idle
    /\ simulate_call = Idle
    /\ translate_call = Idle
    /\ retrieval_call = Idle
    /\ runs = <<>>
    /\ heap = <<>>
    /\ router_call = Idle
    /\ score_call = Idle
    /\ sessions = Idle

\* The run moves on: the stage's effect on the state and the graph's edge.
RagRunStep(st, next, queries, retrieved) ==
    /\ rag_call' = [pc |-> next, st |-> st, queries |-> queries, retrieved |-> retrieved]
    /\ UNCHANGED <<analyze_vars, risk_run, simulate_call, translate_call, retrieval_call,
                   runs, heap, router_call, score_call, sessions>>

rag_run_router ==
    /\ rag_call.pc = "router"
    /\ \E st \in {router_agent(rag_call.st, call_gemini_with_reasoning(o)) :
                      o \in GeminiOutcomes(RagRouterReplies)}
                 \cup {router_agent_error(rag_call.st, FaultMsg)} :
          RagRunStep(st, route_to_domain(st), <<>>, 0)

rag_run_specialized ==
    /\ rag_call.pc \in {"finance", "housing", "visa"}
    /\ \E st \in {CASE rag_call.pc = "finance" ->
                           finance_agent(rag_call.st, call_gemini_with_reasoning(o))
                    [] rag_call.pc = "housing" ->
                           housing_agent(rag_call.st, call_gemini_with_reasoning(o))
                    [] rag_call.pc = "visa" ->
                           visa_agent(rag_call.st, call_gemini_with_reasoning(o)) :
                      o \in GeminiOutcomes(Replies(DetailLines, 1))}
                 \cup {StageError(rag_call.st, FaultMsg)} :
          RagRunStep(st, NextStage(rag_call.pc), <<>>, 0)

rag_run_rag ==
    /\ rag_call.pc = "rag"
    /\ LET queries == SearchQueries(rag_call.st)
       IN  \E outcomes \in [1..Len(queries) -> RagSearchOutcomes] :
              LET results == [i \in 1..Len(queries) |->
                                 GlobalRetrievalTool(outcomes[i], RagTopK)]
              IN  RagRunStep(rag_agent(rag_call.st, results), NextStage("rag"), queries,
                             Len(Retrieve(<<>>, queries, results)))

RagNext == rag_run_router \/ rag_run_specialized \/ rag_run_rag

RagSpec == RagInit /\ [][RagNext]_vars

(***************************************************************************)
(* Uploads of several sessions, each with its background task and a client *)
(* that asks for the analysis again and again.  The server runs every      *)
(* queued background task after the upload's response, and the client      *)
(* keeps retrying: both are weakly fair.                                   *)
(***************************************************************************)
SessionIds == {"s1", "s2", "s3"}

\* A session nobody has uploaded yet.
NoUpload == [doc |-> None, task |-> "none", answer |-> "none"]

UploadInit ==
    /\ AnalyzeAtRest
    /\ sessions = [s \in SessionIds |-> NoUpload]
    /\ risk_run = Idle
    /\ simulate_call = Idle
    /\ translate_call = Idle
    /\ retrieval_call = Idle
    /\ runs = <<>>
    /\ heap = <<>>
    /\ router_call = Idle
    /\ score_call = Idle
    /\ rag_call = Idle

\* A step of session s, everything else as it was.
SessionStep(s, new) ==
    /\ sessions' = [sessions EXCEPT ![s] = new]
    /\ UNCHANGED <<analyze_vars, risk_run, simulate_call, translate_call, retrieval_call,
                   runs, heap, router_call, score_call, rag_call>>

\* upload_document: insert the record, unprocessed, and queue the task.
upload_document_for(s) ==
    /\ sessions[s].doc = None
    /\ SessionStep(s, [doc |-> Some([processed_flag |-> FALSE, raw_text |-> None,
                                       error |-> None]),
                       task |-> "queued",
                       answer |-> sessions[s].answer])

\* process_file_background: its one update, by what extraction and embedding did.
process_file_background_for(s) ==
    /\ sessions[s].task = "queued"
    /\ LET doc == Get(sessions[s].doc)
       IN  \E new \in {[doc EXCEPT !.processed_flag = TRUE, !.raw_text = Some(DocText)],
                       [doc EXCEPT !.processed_flag = FALSE,
                                   !.error = Some(<<"text_extraction_failed">>)],
                       [doc EXCEPT !.processed_flag = FALSE, !.error = Some(FaultMsg)]} :
              SessionStep(s, [doc |-> Some(new), task |-> "done",
                              answer |-> sessions[s].answer])

\* analyze_document as the client sees it: one of the two placeholders, or the
\* result of a pipeline run, after which the client asks no more.
analyze_document_for(s) ==
    /\ sessions[s].answer # "pipeline run"
    /\ SessionStep(s, [sessions[s] EXCEPT !.answer =
           IF sessions[s].doc = None THEN "Document not found"
           ELSE IF ~Get(sessions[s].doc).processed_flag
           THEN "Document still processing. Please retry in a moment."
           ELSE "pipeline run"])

UploadNext ==
    \E s \in SessionIds :
        \/ upload_document_for(s)
        \/ process_file_background_for(s)
        \/ analyze_document_for(s)

UploadSpec ==
    /\ UploadInit
    /\ [][UploadNext]_vars
    /\ \A s \in SessionIds :
          /\ WF_vars(process_file_background_for(s))
          /\ WF_vars(analyze_document_for(s))

(***************************************************************************)
(* Properties.                                                             *)
(***************************************************************************)
\* The names of the stages executed so far, in order.
Stages == [i \in 1..Len(trace) |-> trace[i].stage]

\* The stages whose call ended the given way.
StagesWhoseCall(call) == {trace[i].stage : i \in {j \in 1..Len(trace) : trace[j].call = call}}

\* The pipeline has reached END.
RunOver == pc \in {"END", "done"}

\* C1: once router_agent has run, whatever the model replied, state.domain is
\* exactly one of finance, housing, visa, unknown.
C1_DomainIsOneOfFour ==
    Len(trace) >= 1 => state.domain \in Domains

\* The order of the transition table for a classified domain.
ExpectedOrder(domain) ==
    <<"router">>
        \o (IF domain = FINANCE THEN <<"finance">>
            ELSE IF domain = HOUSING THEN <<"housing">>
            ELSE IF domain = VISA THEN <<"visa">>
            ELSE <<>>)
        \o <<"rag", "risk", "simulation">>

\* C2: the stages of a run execute one at a time in the order router, at most one
\* of finance/housing/visa as state.domain says, rag, risk, simulation, END: the
\* stages executed so far are a prefix of that order without repetition, and the
\* one stage that may run next is the next of the order.
C2_StagesInTableOrder ==
    /\ pc \in {"idle", "router"} => trace = <<>>
    /\ pc \notin {"idle", "router"} =>
          LET expected == ExpectedOrder(state.domain)
              n == Len(trace)
          IN  /\ n >= 1
              /\ n <= Len(expected)
              /\ Stages = SubSeq(expected, 1, n)
              /\ IF n < Len(expected) THEN pc = expected[n + 1] ELSE RunOver

C2_Witness ==
    /\ pc = "END"
    /\ Stages = <<"router", "visa", "rag", "risk", "simulation">>

\* One step of the graph: the stage the run stands at executes.
StageStep ==
    \/ RouterStage
    \/ FinanceStage
    \/ HousingStage
    \/ VisaStage
    \/ RagStage
    \/ RiskStage
    \/ SimulationStage

\* C3: a started run always reaches END, where run_analysis_workflow returns the
\* state: short of END the run is never stuck, whether or not state.error is set
\* (the stage it stands at can execute), each executed stage is one of at most
\* five, and at END every stage of the table for the domain has executed.
C3_RunAlwaysReturns ==
    /\ (pc \notin {"idle", "END", "done"}) =>
          /\ ENABLED StageStep
          /\ Len(trace) < Len(ExpectedOrder(state.domain))
    /\ RunOver => Stages = ExpectedOrder(state.domain)

C3_Witness ==
    /\ pc = "END"
    /\ trace[1].call = "raised"
    /\ state.error # None
    /\ Stages = <<"router", "rag", "risk", "simulation">>

\* The fields a stage writes hold the values they had before it (router: the
\* domain its except branch assigns).
OutputsAtDefault(stage) ==
    CASE stage = "router" -> state.domain = UNKNOWN
      [] stage = "finance" -> state.financial_details = None /\ state.obligations = <<>>
      [] stage = "housing" -> state.housing_details = None /\ state.clauses = <<>>
      [] stage = "visa" -> state.visa_details = None /\ state.obligations = <<>>
      [] stage = "rag" -> state.rag_context = <<>>
      [] stage = "risk" -> state.risk_assessment = None /\ state.red_flags = <<>>
      [] stage = "simulation" -> state.simulation_options = <<>>

\* C4: when the upstream call of one stage raised inside the stage, the run's
\* final state has error set and that stage's fields at their defaults, and
\* analyze_document answers with a response, not an exception.
C4_RaiseIsContained ==
    (pc = "done" /\ Cardinality(StagesWhoseCall("raised")) = 1) =>
        /\ state.error # None
        /\ \A stage \in StagesWhoseCall("raised") : OutputsAtDefault(stage)
        /\ response.kind = "response"

\* The adapter's degraded reply, recognised by its first words.
IsFailureText(text) == HasToken(text, "Error generating response:")

\* Some text of the state was derived from a failed call.
StoresFailureText ==
    \/ \E d \in {state.financial_details, state.housing_details, state.visa_details} :
          d # None /\ IsFailureText(Get(d))
    \/ \E i \in 1..Len(state.obligations) : IsFailureText(state.obligations[i])
    \/ \E i \in 1..Len(state.clauses) : IsFailureText(state.clauses[i])
    \/ \E i \in 1..Len(state.red_flags) : IsFailureText(state.red_flags[i])

\* C5: when the text-generation or the retrieval service failed during a stage
\* of the run, no text derived from the failure is stored in the detail fields,
\* obligations, clauses or red_flags, and state.error records the failure.
C5_FailureDegradesToDefaults ==
    StagesWhoseCall("failed") # {} =>
        /\ ~StoresFailureText
        /\ state.error # None

\* The detail fields that hold a non-empty text.
PopulatedDetails ==
    {f \in {"finance", "housing", "visa"} :
        Truthy(CASE f = "finance" -> state.financial_details
                 [] f = "housing" -> state.housing_details
                 [] f = "visa" -> state.visa_details)}

\* The detail fields that are set at all.
SetDetails ==
    {f \in {"finance", "housing", "visa"} :
        (CASE f = "finance" -> state.financial_details
           [] f = "housing" -> state.housing_details
           [] f = "visa" -> state.visa_details) # None}

\* C6 as stated: in the final state exactly the detail field matching a domain
\* of finance, housing or visa is populated (non-empty), and none is set when the
\* domain is unknown.
C6_ExactlyTheMatchingDetailPopulated ==
    pc = "END" =>
        /\ state.domain \in {FINANCE, HOUSING, VISA} =>
              PopulatedDetails = {Head(state.domain)}
        /\ state.domain = UNKNOWN => SetDetails = {}

\* C6 amended: at every point of a run no detail field but the one matching the
\* domain is ever set, none is set when the domain is not finance, housing or
\* visa, and in the final state the matching field is set (possibly to an empty
\* text) exactly when the specialized stage's upstream call did not raise.
C6_OnlyTheMatchingDetailSet ==
    /\ state.domain \in {FINANCE, HOUSING, VISA} => SetDetails \subseteq {Head(state.domain)}
    /\ state.domain \notin {FINANCE, HOUSING, VISA} => SetDetails = {}
    /\ (RunOver /\ state.domain \in {FINANCE, HOUSING, VISA}) =>
          (SetDetails = {Head(state.domain)}
              <=> Head(state.domain) \notin StagesWhoseCall("raised"))

C6_Witness ==
    /\ pc = "END"
    /\ state.domain = FINANCE
    /\ state.financial_details = Some(<<>>)
    /\ PopulatedDetails = {}

\* C7: after rag_agent has run, rag_context is sorted by non-increasing score,
\* holds no two items with the same text, and has at most 10 items.
C7_RagContextSortedDistinctCapped ==
    "rag" \in {Stages[i] : i \in 1..Len(Stages)} =>
        LET ctx == state.rag_context
        IN  /\ \A i \in 1..(Len(ctx) - 1) : ctx[i].score >= ctx[i + 1].score
            /\ \A i, j \in 1..Len(ctx) : ctx[i].text = ctx[j].text => i = j
            /\ Len(ctx) <= RagTopN

\* Two queries contributed, and the clause retrieved later ranks first.
C7_Witness ==
    /\ pc = "risk"
    /\ Len(state.rag_context) = 2
    /\ state.rag_context[1].score > state.rag_context[2].score
    /\ state.rag_context[1].query # state.rag_context[2].query
    /\ state.rag_context[1].query = SearchQueries(state)[2]

\* The number of times a stage has executed in the run.
TimesRun(stage) == Cardinality({i \in 1..Len(trace) : trace[i].stage = stage})

\* C8: rag executes exactly once in every run whatever the domain (never twice,
\* and once by the time risk starts); in a run whose domain is unknown no
\* specialized stage executes, the three detail fields stay unset, and the run
\* still comes back from rag with a retrieval result.
C8_RagOnceUnknownSkipsSpecialized ==
    /\ TimesRun("rag") <= 1
    /\ pc \in {"risk", "simulation", "END", "done"} => TimesRun("rag") = 1
    /\ (Len(trace) >= 1 /\ state.domain = UNKNOWN) =>
          /\ \A f \in {"finance", "housing", "visa"} : TimesRun(f) = 0
          /\ SetDetails = {}
          /\ pc # "router" /\ (pc # "rag" => TimesRun("rag") = 1)

C8_Witness ==
    /\ pc = "END"
    /\ state.domain = UNKNOWN
    /\ trace[1].call = "answered"
    /\ state.rag_context # <<>>

\* C9: after simulation_agent has run on a reply of the model, every entry of
\* simulation_options has all of scenario_type, label, parameters and formula, and
\* every valid entry of the reply was kept: entries lacking a key are dropped
\* without the others being lost.
C9_ValidEntriesKept ==
    \A i \in 1..Len(trace) :
        (trace[i].stage = "simulation" /\ trace[i].call = "answered") =>
            /\ \A k \in 1..Len(state.simulation_options) :
                   IsValidSimulation(state.simulation_options[k])
            /\ Len(state.simulation_options) = trace[i].valid

\* C10: after simulation_agent has run, simulation_options holds no more
\* descriptors than the prompt template of the routed domain declares (6 for
\* finance, 3 for housing, 2 for visa).
C10_WithinTemplateMaximum ==
    TimesRun("simulation") = 1 =>
        Len(state.simulation_options) <= TemplateMax(state.domain)

\* The pairing of level and score (in hundredths) of the constant mapping.
LevelMatchesScore(r) ==
    /\ r.risk_level \in {"LOW", "MEDIUM", "HIGH"}
    /\ r.risk_level = "LOW" <=> r.risk_score = 25
    /\ r.risk_level = "MEDIUM" <=> r.risk_score = 50
    /\ r.risk_level = "HIGH" <=> r.risk_score = 75

\* C11 as stated: in every response of analyze_document, the placeholders
\* included, risk_level is LOW, MEDIUM or HIGH and is LOW exactly with score
\* 0.25, MEDIUM exactly with 0.5, HIGH exactly with 0.75.
C11_LevelMatchesScoreEverywhere ==
    response.kind = "response" => LevelMatchesScore(response)

\* C11 amended: risk_level is always LOW, MEDIUM or HIGH; a response built from
\* a pipeline run pairs LOW with 0.25, MEDIUM with 0.5 and HIGH with 0.75, and
\* the not-found and not-yet-processed placeholders carry LOW with score 0.
C11_LevelMatchesScoreAfterRun ==
    response.kind = "response" =>
        /\ response.risk_level \in {"LOW", "MEDIUM", "HIGH"}
        /\ pc = "done" => LevelMatchesScore(response)
        /\ pc # "done" => response.risk_level = "LOW" /\ response.risk_score = 0

C11_Witness ==
    /\ pc = "done"
    /\ response.kind = "response"
    /\ response.risk_level = "MEDIUM"
    /\ response.risk_score = 50
    /\ \E i \in 1..Len(trace) : trace[i].stage = "risk" /\ trace[i].call = "answered"

\* The score (in hundredths) that goes with a level.
ScoreOfLevel(level) ==
    CASE level = "LOW" -> 25
      [] level = "MEDIUM" -> 50
      [] level = "HIGH" -> 75

\* C12: the response for a processed document carries the level the risk stage
\* parsed from the reply's RISK_LEVEL line (HIGH, LOW or MEDIUM) with that
\* level's score, so MEDIUM / 0.5 is returned only when the line is missing or
\* names no level.
C12_ResponseCarriesParsedLevel ==
    risk_run.phase = "returned" =>
        /\ risk_run.response.risk_level = risk_run.risk_level
        /\ risk_run.response.risk_score = ScoreOfLevel(risk_run.risk_level)

\* C13: when a reply that is expected to be JSON fails to parse, in simulation
\* extraction (simulation_agent) or simulation execution (run_simulation),
\* the model is called exactly one more time, two calls in all, before the
\* caller gets the empty or failure structure.
C13_ParseFailureRetriedOnce ==
    (simulate_call.phase = "returned" /\ simulate_call.parsed = "JSONDecodeError") =>
        simulate_call.calls = 2

\* A non-empty text that occurs in another, token for token.
OccursIn(part, text) ==
    /\ part # <<>>
    /\ \E a \in 1..Len(text) : \E b \in a..Len(text) : SubSeq(text, a, b) = part

\* C14: after a run routed to housing whose housing reply holds obligation text
\* (a line the obligation extraction keeps), housing_details is non-empty and
\* state.obligations holds at least one string taken from that reply.
C14_HousingObligationsFromReply ==
    (/\ RunOver
     /\ state.domain = HOUSING
     /\ state.housing_details # None
     /\ ExtractObligations(Get(state.housing_details)) # <<>>) =>
        /\ Truthy(state.housing_details)
        /\ \E i \in 1..Len(state.obligations) :
               OccursIn(state.obligations[i], Get(state.housing_details))

\* The record of the session is missing, or present with processed_flag false.
NotAnalysable ==
    \/ FindOne(SessionId) = None
    \/ ~Get(FindOne(SessionId)).processed_flag

\* A response of the placeholder shape: domain unknown, LOW, every list empty.
IsPlaceholderShape(r) ==
    /\ r.kind = "response"
    /\ r.domain = UNKNOWN
    /\ r.risk_level = "LOW"
    /\ r.clauses = <<>> /\ r.obligations = <<>> /\ r.red_flags = <<>>
    /\ r.resources = <<>> /\ r.recommendations = <<>>

\* C15: an analyze request for a session whose record is missing or not yet
\* processed answers with a placeholder (domain unknown, LOW, empty lists); it
\* does not raise, does not start the pipeline and leaves the stored records as
\* they are.
C15_PlaceholderWithoutRun ==
    [][(pc = "idle" /\ NotAnalysable) =>
          /\ pc' = "idle" /\ state' = state /\ trace' = trace
          /\ response' # response =>
                /\ IsPlaceholderShape(response')
                /\ documents_metadata' = documents_metadata]_vars

C15_Witness ==
    /\ pc = "idle"
    /\ FindOne(SessionId) # None
    /\ NotAnalysable
    /\ IsPlaceholderShape(response)
    /\ response.summary = <<"Document still processing. Please retry in a moment.">>
    /\ trace = <<>>

\* C16: under every interleaving of background processing and analyze requests,
\* a record with processed_flag true holds the fully extracted text in raw_text,
\* and a pipeline run exists only for a processed record, after the background
\* task has finished, and carries exactly that text.
C16_RunOnlyOnIngestedText ==
    /\ \A d \in documents_metadata : d.processed_flag => d.raw_text = Some(DocText)
    /\ pc # "idle" =>
          /\ background = "done"
          /\ \E d \in FindOne(SessionId) :
                d.processed_flag /\ Some(state.raw_text) = d.raw_text
          /\ state.raw_text = DocText

C16_Witness ==
    /\ pc = "rag"
    /\ background = "done"
    /\ Get(FindOne(SessionId)).processed_flag
    /\ state.raw_text = DocText

\* C17: for every scenario type tag, parameter mapping and model reply, a
\* failed or unparseable one included, run_simulation returns a response with a
\* numeric result, a severity tag, the is_risk boolean and reasoning text, and
\* not an error.
C17_SimulateAlwaysAnswers ==
    (simulate_call.phase = "returned" /\ simulate_call.op = "run_simulation") =>
        /\ simulate_call.response.kind = "response"
        /\ simulate_call.response.exposure_estimate \in Nat
        /\ JsonType(simulate_call.response.severity) = "str"
        /\ JsonType(simulate_call.response.is_risk) = "bool"
        /\ JsonType(simulate_call.response.explanation) = "str"

\* C19: GlobalRetrievalTool never raises; when the embedding, the index lookup
\* or the database fails it returns the empty list, and otherwise it returns at
\* most top_k items.
C19_RetrievalNeverRaisesAtMostTopK ==
    retrieval_call.phase = "returned" =>
        /\ retrieval_call.result.kind = "return"
        /\ retrieval_call.outcome.kind \in RetrievalFailures =>
              retrieval_call.result.value = <<>>
        /\ Len(retrieval_call.result.value) <= retrieval_call.top_k

C19_Witness ==
    /\ retrieval_call.phase = "returned"
    /\ retrieval_call.outcome.kind = "results"
    /\ Len(retrieval_call.outcome.items) > retrieval_call.top_k
    /\ Len(retrieval_call.result.value) = retrieval_call.top_k

\* C20: the translation stage calls the model only when the target language is
\* not English and prior summary text exists; with an English target, or with
\* no prior text, it makes no call and the translation is the source text
\* unchanged.
C20_ModelCalledOnlyForNonEnglishText ==
    (translate_call.phase = "returned" /\ translate_call.answer.ran) =>
        LET a == translate_call.answer
        IN  /\ a.calls > 0 => (a.language # "en" /\ a.summary # <<>>)
            /\ (a.language = "en" \/ a.summary = <<>>) =>
                  /\ a.calls = 0
                  /\ a.kind = "response"
                  /\ a.translated_text = a.summary

\* The list objects a started run's state refers to.
ListsOf(r) == {runs[r].st.clauses, runs[r].st.obligations, runs[r].st.red_flags}

\* C18: two concurrent runs for distinct sessions share no mutable state: the
\* list objects of their states are distinct, and under every interleaving of
\* their stages each run ends in the state it reaches when run alone with the
\* same external replies.
C18_RunsAreIndependent ==
    /\ \A r1, r2 \in DOMAIN runs :
          (r1 # r2 /\ runs[r1].pc # "new" /\ runs[r2].pc # "new") =>
              ListsOf(r1) \cap ListsOf(r2) = {}
    /\ \A r \in DOMAIN runs :
          runs[r].pc = "END" =>
              Deref(runs[r].st, heap) =
                  RunAlone("router", InitialState(SessionOf(r), DocText), runs[r].script)

C18_Witness ==
    /\ DOMAIN runs = RunIds
    /\ runs[1].pc = "END" /\ runs[2].pc = "END"
    /\ \A r \in RunIds :
          /\ heap[runs[r].st.red_flags] # <<>>
          /\ heap[runs[r].st.clauses] \o heap[runs[r].st.obligations] # <<>>
    /\ heap[runs[1].st.clauses] # heap[runs[2].st.clauses]

\* Whether some line of the reply, stripped, starts with DOMAIN:.
HasDomainLine(analysis) ==
    \E i \in 1..Len(Split(analysis, NL)) :
        StartsWith(Strip(Split(analysis, NL)[i]), "DOMAIN:")

\* Whether the reply's DOMAIN: line names one of the four domains.
ParseableDomainLine(analysis) ==
    HasDomainLine(analysis) /\ DomainLine(analysis) \in Domains

\* C21: router_agent takes the domain from the reply's DOMAIN: line whenever that
\* line names one of the four domains (DOMAIN: unknown included), and from the
\* keyword fallback exactly when the reply has no DOMAIN: line or the line names
\* none of the four.
C21_FallbackExactlyWhenNoParseableLine ==
    router_call.phase = "returned" =>
        IF ParseableDomainLine(router_call.analysis)
        THEN router_call.domain = DomainLine(router_call.analysis)
        ELSE router_call.domain = KeywordDomain(router_call.analysis)

\* C22: risk_level_from_score gives LOW to every score below 0.4, MEDIUM to every
\* score from 0.4 up to but excluding 0.7 and HIGH to every score of 0.7 or more,
\* and the weighted finance and housing scores lie in [0, 1].
C22_LevelBandsAndScoreRange ==
    score_call.phase = "returned" =>
        /\ (score_call.level = "LOW") <=> (10 * score_call.score < 4 * ScoreOne)
        /\ (score_call.level = "MEDIUM") <=>
               (4 * ScoreOne <= 10 * score_call.score /\ 10 * score_call.score < 7 * ScoreOne)
        /\ (score_call.level = "HIGH") <=> (7 * ScoreOne <= 10 * score_call.score)
        /\ score_call.op \in {"finance_risk_score", "housing_risk_score"} =>
               (0 <= score_call.score /\ score_call.score <= ScoreOne)

\* A housing score of exactly 0.7, built from indicators inside [0, 1], rated HIGH.
C22_Witness ==
    /\ score_call.phase = "returned"
    /\ score_call.op = "housing_risk_score"
    /\ \A i \in 1..3 : score_call.args[i] \in 0..IndicatorSteps
    /\ 10 * score_call.score = 7 * ScoreOne
    /\ score_call.level = "HIGH"

\* Whether sequence a is the beginning of sequence b.
IsPrefix(a, b) == Len(a) <= Len(b) /\ SubSeq(b, 1, Len(a)) = a

\* A step that at most appends to the three lists of the run's state.
ListsGrow ==
    /\ IsPrefix(state.obligations, state'.obligations)
    /\ IsPrefix(state.red_flags, state'.red_flags)
    /\ IsPrefix(state.clauses, state'.clauses)

\* C23: across every stage transition of a run, obligations, red_flags and
\* clauses are only appended to: each list's value before the stage is a prefix
\* of its value after it, also when the stage fails.
C23_ListsOnlyAppendedTo == [][(pc \in StageNames) => ListsGrow]_vars

\* A stage after the specialized one has failed and the obligations gathered
\* before it are still there.
C23_Witness ==
    /\ state.obligations # <<>>
    /\ \E i \in 1..Len(trace) :
          trace[i].stage \in {"rag", "risk"} /\ trace[i].call = "raised"

\* C24: no stage changes session_id or raw_text, and domain is written by the
\* classification stage alone, which is the first stage of a run and no later
\* one: from the end of router_agent to the end of the run domain keeps its value.
C24_IdentityTextAndDomainFixed ==
    [][(pc \in StageNames) =>
          /\ state'.session_id = state.session_id
          /\ state'.raw_text = state.raw_text
          /\ pc # "router" => state'.domain = state.domain
          /\ pc = "router" <=> trace = <<>>]_vars

\* A finished run of five stages whose state still names the session, the
\* document text and the domain the router wrote.
C24_Witness ==
    /\ pc = "done"
    /\ Len(trace) = 5
    /\ state.session_id = SessionId
    /\ state.raw_text = DocText
    /\ state.domain = HOUSING

\* C25: for a domain other than finance, housing and visa simulation_agent makes
\* no model call and leaves simulation_options empty; simulation_options is also
\* empty whenever the model's reply cannot be parsed as JSON.
C25_NoCallOffDomainEmptyOnBadJson ==
    (simulate_call.phase = "returned" /\ simulate_call.op = "simulation_agent") =>
        /\ simulate_call.domain \notin {FINANCE, HOUSING, VISA} =>
               (simulate_call.calls = 0 /\ simulate_call.simulation_options = <<>>)
        /\ simulate_call.parsed = "JSONDecodeError" =>
               simulate_call.simulation_options = <<>>

\* simulation_agent has returned for the domain unknown, the model standing
\* ready with a reply of valid descriptors.
C25_Witness ==
    /\ simulate_call.phase = "returned"
    /\ simulate_call.op = "simulation_agent"
    /\ simulate_call.domain = UNKNOWN
    /\ simulate_call.outcome.kind = "text"
    /\ ValidInReply(simulate_call.outcome.text) > 0
    /\ simulate_call.calls = 0
    /\ simulate_call.simulation_options = <<>>

\* The reply a specialized stage stored, and the count its obligations are cut
\* to (the claim states none for housing: every kept line counts there).
StoredReply(stage) ==
    CASE stage = "finance" -> Get(state.financial_details)
      [] stage = "housing" -> Get(state.housing_details)
      [] stage = "visa" -> Get(state.visa_details)

ObligationCap(stage) ==
    CASE stage = "finance" -> FinanceObligationCap
      [] stage = "visa" -> VisaObligationCap
      [] stage = "housing" -> Len(ExtractObligations(StoredReply("housing")))

\* C26: once a specialized stage (finance, housing or visa) has had its reply,
\* state.obligations holds, in reply order, exactly the reply's lines that, with
\* their leading bullet markers stripped, are longer than 10 characters and do
\* not end with a colon, cut to the stage's count (8 for finance, 6 for visa).
C26_ObligationsFromEveryDomainReply ==
    \A i \in 1..Len(trace) :
        (trace[i].stage \in {"finance", "housing", "visa"} /\ trace[i].call # "raised") =>
            state.obligations =
                Take(ExtractObligations(StoredReply(trace[i].stage)),
                     ObligationCap(trace[i].stage))

\* C27: when the text-generation call of the classification stage fails, whatever
\* the failure's message, router_agent sets domain to unknown, the run goes from
\* router to rag and no specialized stage executes.
C27_FailedClassificationIsUnknown ==
    (Len(trace) >= 1 /\ trace[1].stage = "router" /\ trace[1].call = "failed") =>
        /\ state.domain = UNKNOWN
        /\ \A i \in 1..Len(trace) : trace[i].stage \notin {"finance", "housing", "visa"}
        /\ Len(trace) >= 2 => trace[2].stage = "rag"

\* C28: in a run through the graph rag_agent issues at most two retrieval
\* queries, so rag_context holds at most 6 items and the cut to the top 10
\* removes none of the clauses retrieved.
C28_AtMostTwoQueriesSixItems ==
    rag_call.pc = "risk" =>
        /\ Len(rag_call.queries) <= 2
        /\ Len(rag_call.st.rag_context) <= 6
        /\ Len(rag_call.st.rag_context) = rag_call.retrieved

\* Two queries, each returning three clauses the other did not: six items.
C28_Witness ==
    /\ rag_call.pc = "risk"
    /\ Len(rag_call.queries) = 2
    /\ Len(rag_call.st.rag_context) = 6
    /\ Cardinality({rag_call.st.rag_context[i].text : i \in 1..6}) = 6

\* The analysis_results analyze_document stored for the session.
StoredResults == Get(Get(FindOne(SessionId)).analysis_results)

\* C29: for a session whose analysis analyze has stored, every field translate
\* reads from analysis_results is a field analyze wrote, and the text translate
\* passes through or sends for translation is the risk text stored there.
C29_TranslateReadsWhatAnalyzeWrote ==
    (translate_call.phase = "returned" /\ translate_call.answer.ran) =>
        /\ TranslateReads \subseteq DOMAIN StoredResults
        /\ translate_call.answer.summary = StoredResults.risk_assessment

\* C30: a session for which analyze answers "Document still processing. Please
\* retry in a moment." eventually becomes analysable: under fair scheduling of
\* the background task its processed_flag eventually becomes true, and a client
\* that keeps retrying eventually gets the result of a pipeline run.
C30_StillProcessingLeadsToAnalysis ==
    \A s \in SessionIds :
        (sessions[s].answer = "Document still processing. Please retry in a moment.")
            ~> (/\ sessions[s].doc # None
                /\ Get(sessions[s].doc).processed_flag
                /\ sessions[s].answer = "pipeline run")

====
